---------------------------- MODULE Spec2Model ----------------------------
(***************************************************************************)
(* A model of the ECDSA R-value scanner: the persistence layer (the        *)
(* in-memory MockDB and the PostgreSQL adapter DB), the recovery           *)
(* primitives over the scalar field, and the collision orchestrator of     *)
(* the scanner (block ingestion, the collision channel and its workers).   *)
(*                                                                         *)
(* Scaling.  The scalar field Z/nZ of secp256k1 is modelled by Z/11Z, the  *)
(* point k*G by the scalar k itself, its x-coordinate by k*k mod n (equal  *)
(* for k and n-k, as on the curve), and the address of a key d by the      *)
(* string whose letters are determined by d.  A string that the code       *)
(* compares both exactly and case-insensitively is a record [id, cs]: id   *)
(* is the string lower-cased, cs says whether it is written in lower case  *)
(* or in mixed (EIP-55) case.                                              *)
(***************************************************************************)
EXTENDS Integers, Sequences, FiniteSets, TLC

(***************************************************************************)
(* Bounds of the model.                                                    *)
(***************************************************************************)
NumCallers == 2      \* concurrent callers of the persistence API
MaxCalls == 2        \* persistence API calls in one run of SpecIndex
MaxBatchLen == 2     \* transactions in one batch / block
NumWorkers == 2      \* processCollisions goroutines (the scanner starts 5)
ChanCap == 1         \* capacity of collisionChan (the scanner makes 10000)

(***************************************************************************)
(* strings                                                                 *)
(***************************************************************************)
Str(i, c) == [id |-> i, cs |-> c]

Lower(i) == Str(i, "lower")

\* strings.ToLower
ToLower(s) == [s EXCEPT !.cs = "lower"]

\* strings.EqualFold
EqualFold(a, b) == a.id = b.id

(***************************************************************************)
(* The transactions that exist on the chains.  A transaction has a hash,   *)
(* a chain, a signer (the key d), a signing hash z and the nonce k it was  *)
(* signed with; r and s follow from those.  The pool is fixed at start.    *)
(***************************************************************************)
VARIABLES
    pool,            \* tx id -> [chain, d, z, k]: the transactions on chain
    impl,            \* "mock" (MockDB) or "live" (DB, PostgreSQL)
    rValues,         \* r_value_index / MockDB.rValues: r -> TxRef
    collisions,      \* the collisions table: set of collision rows
    keys,            \* recovered_keys / MockDB.keys: sequence of rows
    nonces,          \* recovered_nonces / MockDB.nonces: r -> row
    comps,           \* pending_components / MockDB.comps: sequence of rows
    callers,         \* each API caller's position, arguments and result
    lastCall,        \* the last completed API call and the index before it
    passed,          \* every tx ever handed to BatchCheckAndInsertRValues
    ncalls,          \* API calls started so far
    collisionChan,   \* Scanner.collisionChan: the queued collision events
    recoveryEnabled, \* Scanner.recoveryEnabled
    workers,         \* each processCollisions goroutine: position and locals
    scanned,         \* the transactions of the blocks scanned so far
    rescanned,       \* the transactions of the blocks scanned a second time
    dropped,         \* the events scanBlock dropped because the channel was full
    handled,         \* how each dequeued event ended: [tx, outcome]
    running,         \* ChainScanner.running
    stopChan,        \* ChainScanner.stopChan: the channel the field holds
    closed,          \* the stop channels closed so far
    loops,           \* each scanLoop goroutine: position and locals
    latestBlock,     \* the height of the chain's head
    cursor,          \* scan_state: the last block saved with SaveLastBlock
    cb,              \* a retry.CircuitBreaker
    now,             \* the clock
    cbLog,           \* what the breaker recorded, in order
    allowed,         \* what the last Allow returned
    retry,           \* a call of retry.Do or retry.DoWithResult
    calc,            \* a call of a function of package recovery
    linsys,          \* a recovery.LinearSystem and what was done with it
    client,          \* ChainScanner.client: 0 is nil, else the n-th dialled
    shutdown,        \* main's signal goroutine: "waiting", "stopped", "exited"
    dbClosed,        \* whether database.Close() has run
    writeQueue,      \* Scanner.writeQueue: the queued signatures
    batch,           \* batchWriter's batch, not yet flushed
    signatures       \* the signatures InsertSignatures has stored

dbVars == <<rValues, collisions, keys, nonces, comps>>
apiVars == <<callers, lastCall, passed, ncalls>>
orchVars == <<collisionChan, recoveryEnabled, workers, scanned, rescanned, dropped,
              handled>>
loopVars == <<running, stopChan, closed, loops, latestBlock, cursor>>
cbVars == <<cb, now, cbLog, allowed>>
pureVars == <<calc, linsys>>
utilVars == <<cbVars, retry, pureVars>>
procVars == <<client, shutdown, dbClosed>>
writeVars == <<writeQueue, batch, signatures>>
sysVars == <<procVars, writeVars>>
vars == <<pool, impl, sysVars, dbVars, apiVars, orchVars, loopVars, utilVars>>

Chains == {1, 137}

\* the threshold of a chain's circuit breaker
ChainThreshold == 5

\* the breaker's resetAfter (60 s), in ticks of the clock
ResetAfter == 2

\* secp256k1N, scaled to a small prime
secp256k1N == 11

(***************************************************************************)
(* Scalar-field arithmetic (math/big).                                     *)
(***************************************************************************)
\* big.Int.Mod: the Euclidean modulus
Mod(a) == a % secp256k1N

\* big.Int.ModInverse: 0 stands for Go's nil (no inverse)
ModInverse(a) ==
    IF \E x \in 1..(secp256k1N - 1) : Mod(a * x) = 1
    THEN CHOOSE x \in 1..(secp256k1N - 1) : Mod(a * x) = 1
    ELSE 0

\* curve.ScalarBaseMult(k) reduced mod n: the x-coordinate of k*G
Rx(k) == Mod(k * k)

\* signWithNonce: s = k^-1 (z + r d) mod n
SignS(d, z, k) == Mod(ModInverse(k) * (z + Rx(k) * d))

\* crypto.PubkeyToAddress(priv.PublicKey).Hex(): the EIP-55 form has mixed
\* case unless the address holds no letter; key 1 stands for such an address
AddressHex(d) == Str(d, IF d = 1 THEN "lower" ELSE "mixed")

\* "0x" + hex.EncodeToString of a 32-byte buffer: fixed width, big-endian
HexEncode(x) == <<x \div 16, x % 16>>

\* hex.DecodeString + big.Int.SetBytes
HexDecode(h) == h[1] * 16 + h[2]

\* crypto.ToECDSA: the scalar must lie in (0, n)
ToECDSAOk(d) == 0 < d /\ d < secp256k1N

(***************************************************************************)
(* The recovery primitives (package recovery).  Scalars are integers, keys *)
(* and nonces are returned as hex strings.                                 *)
(***************************************************************************)
RecErr(msg) == [err |-> TRUE, msg |-> msg]

RecOk(d) == [err |-> FALSE, key |-> HexEncode(d)]

\* the same with the sign of z slipped: d = (s*k + z) * r^-1 mod n
RecoverDSignSlip(z, r, s, k) ==
    LET d == Mod((s * k + z) * ModInverse(r))
    IN IF d <= 0 THEN d + secp256k1N ELSE d

\* d = (s*k - z) * r^-1 mod n, raised by n when it is not positive
RecoverD(z, r, s, k) ==
    LET d == Mod((s * k - z) * ModInverse(r))
    IN IF d <= 0 THEN d + secp256k1N ELSE d

\* one pass of the loop "try both k and -k": the key of this attempt, or
\* the next attempt
RECURSIVE RecoverLoop(_, _, _, _, _)
RecoverLoop(z1, r1, s1, k, attempt) ==
    IF attempt >= 2 THEN RecErr("failed to recover private key")
    ELSE LET ka == IF attempt = 1 THEN secp256k1N - k ELSE k
         IN IF ModInverse(r1) = 0 THEN RecoverLoop(z1, r1, s1, ka, attempt + 1)
            ELSE IF ~ToECDSAOk(RecoverD(z1, r1, s1, ka))
                 THEN RecoverLoop(z1, r1, s1, ka, attempt + 1)
                 ELSE RecOk(RecoverD(z1, r1, s1, ka))

\* the same with the s values added instead of subtracted:
\* k = (z1 - z2) * (s1 + s2)^-1
RecoverFromSignaturesSumS(z1, r1, s1, z2, r2, s2) ==
    IF r1 # r2 THEN RecErr("R values must match")
    ELSE IF s1 = s2 THEN RecErr("signatures are identical")
    ELSE LET zDiff == Mod(z1 - z2)
             sSum == Mod(s1 + s2)
             sSumInv == ModInverse(sSum)
         IN IF sSumInv = 0 THEN RecErr("failed to compute modular inverse")
            ELSE RecoverLoop(z1, r1, s1, Mod(zDiff * sSumInv), 0)

\* the same without the comparison of the R values
RecoverFromSignaturesAnyR(z1, r1, s1, z2, r2, s2) ==
    IF s1 = s2 THEN RecErr("signatures are identical")
    ELSE LET zDiff == Mod(z1 - z2)
             sDiff == Mod(s1 - s2)
             sDiffInv == ModInverse(sDiff)
         IN IF sDiffInv = 0 THEN RecErr("failed to compute modular inverse")
            ELSE RecoverLoop(z1, r1, s1, Mod(zDiff * sDiffInv), 0)

\* recovery.RecoverFromSignatures
RecoverFromSignatures(z1, r1, s1, z2, r2, s2) ==
    IF r1 # r2 THEN RecErr("R values must match")
    ELSE IF s1 = s2 THEN RecErr("signatures are identical")
    ELSE LET zDiff == Mod(z1 - z2)
             sDiff == Mod(s1 - s2)
             sDiffInv == ModInverse(sDiff)
         IN IF sDiffInv = 0 THEN RecErr("failed to compute modular inverse")
            ELSE RecoverLoop(z1, r1, s1, Mod(zDiff * sDiffInv), 0)

\* the same with the negated nonce: d = (s*(n - k) - z) * r^-1 mod n
RecoverWithKnownNonceNegated(z, r, s, kHex) ==
    IF ModInverse(r) = 0 THEN RecErr("failed to compute modular inverse of r")
    ELSE IF ~ToECDSAOk(RecoverD(z, r, s, secp256k1N - HexDecode(kHex)))
         THEN RecErr("invalid private key")
         ELSE RecOk(RecoverD(z, r, s, secp256k1N - HexDecode(kHex)))

\* recovery.RecoverWithKnownNonce
RecoverWithKnownNonce(z, r, s, kHex) ==
    IF ModInverse(r) = 0 THEN RecErr("failed to compute modular inverse of r")
    ELSE IF ~ToECDSAOk(RecoverD(z, r, s, HexDecode(kHex)))
         THEN RecErr("invalid private key")
         ELSE RecOk(RecoverD(z, r, s, HexDecode(kHex)))

\* the same without the hash: k = r*d * s^-1 mod n
DeriveNonceNoHash(z, r, s, privKeyHex) ==
    HexEncode(Mod((r * HexDecode(privKeyHex)) * ModInverse(s)))

\* recovery.DeriveNonce: k = (z + r*d) * s^-1 mod n
DeriveNonce(z, r, s, privKeyHex) ==
    HexEncode(Mod((r * HexDecode(privKeyHex) + z) * ModInverse(s)))

\* a verification that checks the scalar but not the address
VerifyPrivateKeyNoAddress(privKeyHex, expectedAddr) ==
    ToECDSAOk(HexDecode(privKeyHex))

\* recovery.VerifyPrivateKey
VerifyPrivateKey(privKeyHex, expectedAddr) ==
    /\ ToECDSAOk(HexDecode(privKeyHex))
    /\ EqualFold(AddressHex(HexDecode(privKeyHex)), expectedAddr)

(***************************************************************************)
(* A transaction as the RPC node returns it.                               *)
(***************************************************************************)
TxHashOf(t) == Lower(t)

\* hexutil.Big as JSON: "0x" and the hex digits of the number, no leading
\* zero; a string is the sequence of its digits after "0x"
HexQuantity(x) == IF x < 16 THEN <<x>> ELSE <<x \div 16, x % 16>>

\* the number a hex string stands for; the empty string stands for 0
RECURSIVE HexToBig(_)
HexToBig(w) ==
    IF w = <<>> THEN 0
    ELSE 16 * HexToBig(SubSeq(w, 1, Len(w) - 1)) + w[Len(w)]

\* RPCTransaction.R, the string of the node's JSON: the r of the signature
\* as a quantity, unless the node sent another string (<<>> is "")
TxRWire(t) ==
    IF "r" \in DOMAIN pool[t] THEN pool[t].r ELSE HexQuantity(Rx(pool[t].k))

\* a string as a key of the R-index: two strings are one key only when they
\* are equal, so a string with leading zeros is another key than the
\* quantity (256 is added for each leading zero)
StringKey(w) ==
    IF w = <<>> THEN -1
    ELSE HexToBig(w) + 256 * (Len(w) - Len(HexQuantity(HexToBig(w))))

\* strings.ToLower(tx.R) as the key of the R-index
TxR(t) == StringKey(TxRWire(t))
TxS(t) == SignS(pool[t].d, pool[t].z, pool[t].k)
TxZ(t) == pool[t].z
TxChain(t) == pool[t].chain
TxFrom(t) == AddressHex(pool[t].d)

TxRef(h, c) == [TxHash |-> h, ChainID |-> c]

\* db.TxInput as scanBlock builds it: every string lower-cased
TxInput(t) ==
    [RValue |-> TxR(t), TxHash |-> ToLower(TxHashOf(t)),
     ChainID |-> TxChain(t), Address |-> ToLower(TxFrom(t))]

\* the transactions of the R-index runs: three share r = 9 (two chains,
\* two senders), one has another r
IndexPool ==
    (1 :> [chain |-> 1, d |-> 2, z |-> 1, k |-> 3]) @@
    (2 :> [chain |-> 137, d |-> 5, z |-> 3, k |-> 3]) @@
    (3 :> [chain |-> 1, d |-> 2, z |-> 3, k |-> 3]) @@
    (4 :> [chain |-> 1, d |-> 5, z |-> 2, k |-> 4])

(***************************************************************************)
(* MockDB: every method runs under m.mu, so it is one atomic step.         *)
(***************************************************************************)
NoRet == [kind |-> "none"]

\* MockDB.CheckAndInsertRValue: (existing, isCollision) and the new index
MockCheckAndInsert(rv, r, h, c) ==
    IF r \in DOMAIN rv
    THEN [rValues |-> rv, isCollision |-> TRUE, existing |-> rv[r]]
    ELSE [rValues |-> rv @@ (r :> TxRef(h, c)), isCollision |-> FALSE,
          existing |-> TxRef(h, c)]

CollisionResult(tx, first) ==
    [RValue |-> tx.RValue, TxHash |-> tx.TxHash, ChainID |-> tx.ChainID,
     Address |-> tx.Address, FirstTxRef |-> first]

\* a variant of the loop body that reports a collision without comparing
\* the tx hash with the witness, as CheckAndInsertRValue does
MockBatchStepNoHashCheck(st, tx) ==
    IF tx.RValue \in st.seen THEN st
    ELSE IF tx.RValue \in DOMAIN st.rValues
    THEN [st EXCEPT !.seen = @ \cup {tx.RValue},
                    !.out = Append(@, CollisionResult(tx, st.rValues[tx.RValue]))]
    ELSE [st EXCEPT !.seen = @ \cup {tx.RValue},
                    !.rValues = @ @@ (tx.RValue :> TxRef(tx.TxHash, tx.ChainID))]

\* one iteration of the loop of MockDB.BatchCheckAndInsertRValues
MockBatchStep(st, tx) ==
    IF tx.RValue \in st.seen THEN st
    ELSE IF tx.RValue \in DOMAIN st.rValues
    THEN IF ~EqualFold(st.rValues[tx.RValue].TxHash, tx.TxHash)
         THEN [st EXCEPT !.seen = @ \cup {tx.RValue},
                         !.out = Append(@, CollisionResult(tx, st.rValues[tx.RValue]))]
         ELSE [st EXCEPT !.seen = @ \cup {tx.RValue}]
    ELSE [st EXCEPT !.seen = @ \cup {tx.RValue},
                    !.rValues = @ @@ (tx.RValue :> TxRef(tx.TxHash, tx.ChainID))]

RECURSIVE MockBatchLoop(_, _)
MockBatchLoop(st, txs) ==
    IF txs = <<>> THEN st
    ELSE MockBatchLoop(MockBatchStep(st, Head(txs)), Tail(txs))

\* MockDB.BatchCheckAndInsertRValues: the new index and the collisions
MockBatch(rv, txs) ==
    LET st == MockBatchLoop([rValues |-> rv, seen |-> {}, out |-> <<>>], txs)
    IN [rValues |-> st.rValues, out |-> st.out]

(***************************************************************************)
(* The persistence API as its callers see it.                              *)
(***************************************************************************)
Callers == 1..NumCallers

IdleCaller == [pc |-> "idle", op |-> "none", tx |-> 0, ret |-> NoRet]

CanCall(c) == callers[c].pc = "idle" /\ ncalls < MaxCalls

\* all batches of at most MaxBatchLen transactions of the pool
Batches == UNION {[1..n -> DOMAIN pool] : n \in 0..MaxBatchLen}

BatchInputs(b) == [i \in 1..Len(b) |-> TxInput(b[i])]

\* MockDB.CheckAndInsertRValue
MockCheckAndInsertRValue(c, t) ==
    /\ impl = "mock"
    /\ CanCall(c)
    /\ LET res == MockCheckAndInsert(rValues, TxR(t), TxHashOf(t), TxChain(t))
       IN /\ rValues' = res.rValues
          /\ callers' = [callers EXCEPT ![c] =
                [pc |-> "idle", op |-> "check", tx |-> t,
                 ret |-> [kind |-> "check", isCollision |-> res.isCollision,
                          existing |-> res.existing]]]
    /\ lastCall' = [op |-> "check", txs |-> <<t>>, before |-> rValues,
                    ret |-> callers'[c].ret]
    /\ ncalls' = ncalls + 1
    /\ UNCHANGED <<orchVars, loopVars, utilVars, pool, impl, sysVars, collisions, keys, nonces, comps, passed>>

\* DB.CheckAndInsertRValue, first statement: SELECT ... FROM r_value_index
DBCheckSelect(c, t) ==
    /\ impl = "live"
    /\ CanCall(c)
    /\ ncalls' = ncalls + 1
    /\ IF TxR(t) \in DOMAIN rValues
       THEN /\ callers' = [callers EXCEPT ![c] =
                  [pc |-> "idle", op |-> "check", tx |-> t,
                   ret |-> [kind |-> "check", isCollision |-> TRUE,
                            existing |-> rValues[TxR(t)]]]]
            /\ lastCall' = [op |-> "check", txs |-> <<t>>, before |-> rValues,
                            ret |-> callers'[c].ret]
       ELSE /\ callers' = [callers EXCEPT ![c] =
                  [pc |-> "insert", op |-> "check", tx |-> t, ret |-> NoRet]]
            /\ UNCHANGED lastCall
    /\ UNCHANGED <<orchVars, loopVars, utilVars, pool, impl, sysVars, dbVars, passed>>

\* DB.CheckAndInsertRValue, second statement: INSERT ... ON CONFLICT DO
\* NOTHING, then return (nil, false)
DBCheckInsert(c) ==
    /\ impl = "live"
    /\ callers[c].pc = "insert"
    /\ LET t == callers[c].tx
       IN /\ rValues' = IF TxR(t) \in DOMAIN rValues THEN rValues
                        ELSE rValues @@ (TxR(t) :> TxRef(TxHashOf(t), TxChain(t)))
          /\ callers' = [callers EXCEPT ![c] =
                [pc |-> "idle", op |-> "check", tx |-> t,
                 ret |-> [kind |-> "check", isCollision |-> FALSE,
                          existing |-> TxRef(TxHashOf(t), TxChain(t))]]]
          /\ lastCall' = [op |-> "check", txs |-> <<t>>, before |-> rValues,
                          ret |-> callers'[c].ret]
    /\ UNCHANGED <<orchVars, loopVars, utilVars, pool, impl, sysVars, collisions, keys, nonces, comps, passed, ncalls>>

\* MockDB.BatchCheckAndInsertRValues
BatchCheckAndInsertRValues(c, b) ==
    /\ impl = "mock"
    /\ CanCall(c)
    /\ LET res == MockBatch(rValues, BatchInputs(b))
       IN /\ rValues' = res.rValues
          /\ callers' = [callers EXCEPT ![c] =
                [pc |-> "idle", op |-> "batch", tx |-> 0,
                 ret |-> [kind |-> "batch", out |-> res.out]]]
    /\ lastCall' = [op |-> "batch", txs |-> b, before |-> rValues,
                    ret |-> callers'[c].ret]
    /\ passed' = passed \cup {b[i] : i \in 1..Len(b)}
    /\ ncalls' = ncalls + 1
    /\ UNCHANGED <<orchVars, loopVars, utilVars, pool, impl, sysVars, collisions, keys, nonces, comps>>

CollisionRow(t) ==
    [RValue |-> TxR(t), TxHash |-> TxHashOf(t), ChainID |-> TxChain(t),
     Address |-> ToLower(TxFrom(t))]

\* INSERT INTO collisions ... ON CONFLICT DO NOTHING, UNIQUE(r_value, tx_hash)
InsertCollision(tbl, row) ==
    IF \E x \in tbl : x.RValue = row.RValue /\ x.TxHash = row.TxHash
    THEN tbl ELSE tbl \cup {row}

\* RecordCollision: MockDB stores nothing, DB inserts the row
RecordCollision(c, t) ==
    /\ CanCall(c)
    /\ collisions' = IF impl = "mock" THEN collisions
                     ELSE InsertCollision(collisions, CollisionRow(t))
    /\ callers' = [callers EXCEPT ![c] =
          [pc |-> "idle", op |-> "record", tx |-> t, ret |-> NoRet]]
    /\ lastCall' = [op |-> "record", txs |-> <<t>>, before |-> rValues,
                    ret |-> NoRet]
    /\ ncalls' = ncalls + 1
    /\ UNCHANGED <<orchVars, loopVars, utilVars, pool, impl, sysVars, rValues, keys, nonces, comps, passed>>

EmptyMap == [x \in {} |-> 0]

Workers == 1..NumWorkers

NoEvent == [RValue |-> 0]

NoTx == [Hash |-> Lower(0)]

\* a processCollisions goroutine blocked on the channel
IdleWorker ==
    [pc |-> "idle", ev |-> NoEvent, tx1 |-> NoTx, tx2 |-> NoTx,
     priv |-> <<>>, keyID |-> 0, nonce |-> <<>>]

\* scanner.New: an empty channel, recovery enabled, the workers started
InitScanner ==
    /\ collisionChan = <<>>
    /\ recoveryEnabled = TRUE
    /\ workers = [w \in Workers |-> IdleWorker]
    /\ scanned = {}
    /\ rescanned = {}
    /\ dropped = {}
    /\ handled = {}

\* no scanLoop goroutine yet; the chain's head and the saved cursor are 0
InitChainIdle ==
    /\ running = FALSE
    /\ stopChan = 0
    /\ closed = {}
    /\ loops = <<>>
    /\ latestBlock = 0
    /\ cursor = 0

\* retry.NewCircuitBreaker(5, 60 s) of the chain scanner
NewCircuitBreaker(threshold, resetAfter) ==
    [failures |-> 0, threshold |-> threshold, resetAfter |-> resetAfter,
     lastFailure |-> 0, open |-> FALSE]

\* an error value: its identity and its message, a sequence of fragments
Err(id, msg) == [id |-> id, msg |-> msg]

\* the nil error
Nil == Err(0, <<>>)

\* the locals of a call of retry.Do or retry.DoWithResult
RetryCall(fn, cfg) ==
    [fn |-> fn, pc |-> "start", cfg |-> cfg, attempt |-> 0, calls |-> <<>>,
     waits |-> 0, slept |-> 0, delays |-> <<>>, ctx |-> "live",
     lastErr |-> Nil, ret |-> Nil]

NoRetry ==
    [RetryCall("none", [MaxAttempts |-> 0, BaseDelay |-> 0, MaxDelay |-> 0])
        EXCEPT !.pc = "done"]

\* no recovery function called, no linear system built
InitPureIdle ==
    /\ calc = [fn |-> "none"]
    /\ linsys = [op |-> "none"]

\* the breaker as constructed, no retry call in progress
InitUtilIdle ==
    /\ cb = NewCircuitBreaker(ChainThreshold, ResetAfter)
    /\ now = 0
    /\ cbLog = <<>>
    /\ allowed = TRUE
    /\ retry = NoRetry
    /\ InitPureIdle

\* the process after scanner.New: the chain's client dialled, no signal
\* yet, the database open, nothing queued for the batch writer
InitSys ==
    /\ client = 1
    /\ shutdown = "waiting"
    /\ dbClosed = FALSE
    /\ writeQueue = <<>>
    /\ batch = <<>>
    /\ signatures = {}

InitDB ==
    /\ rValues = EmptyMap
    /\ collisions = {}
    /\ keys = <<>>
    /\ nonces = EmptyMap
    /\ comps = <<>>

InitIndex ==
    /\ pool = IndexPool
    /\ impl \in {"mock", "live"}
    /\ InitDB
    /\ InitSys
    /\ callers = [c \in Callers |-> IdleCaller]
    /\ lastCall = [op |-> "none", txs |-> <<>>, before |-> EmptyMap,
                   ret |-> NoRet]
    /\ passed = {}
    /\ ncalls = 0
    /\ InitScanner
    /\ InitChainIdle
    /\ InitUtilIdle

NextIndex ==
    \/ \E c \in Callers, t \in DOMAIN pool : MockCheckAndInsertRValue(c, t)
    \/ \E c \in Callers, t \in DOMAIN pool : DBCheckSelect(c, t)
    \/ \E c \in Callers : DBCheckInsert(c)
    \/ \E c \in Callers, b \in Batches : BatchCheckAndInsertRValues(c, b)
    \/ \E c \in Callers, t \in DOMAIN pool : RecordCollision(c, t)

SpecIndex == InitIndex /\ [][NextIndex]_vars

TypeIndex ==
    /\ impl \in {"mock", "live"}
    /\ \A r \in DOMAIN rValues : rValues[r].ChainID \in Chains
    /\ ncalls \in 0..MaxCalls

(***************************************************************************)
(* Recovered keys, recovered nonces and pending components.  Every method  *)
(* is one statement (MockDB: under m.mu; DB: one SQL statement).           *)
(***************************************************************************)
\* MockDB.SaveRecoveredKey: append, ID = len + 1
MockSaveRecoveredKey(ks, key) ==
    [keys |-> Append(ks, [key EXCEPT !.ID = Len(ks) + 1]), id |-> Len(ks) + 1]

\* DB.SaveRecoveredKey: INSERT ... ON CONFLICT (address, chain_id) DO UPDATE
\* SET private_key, r_values, tx_hashes RETURNING id; the address column
\* holds bytes (hexToBytes), read back in lower case (bytesToHex)
DBSaveRecoveredKey(ks, key) ==
    IF \E i \in 1..Len(ks) :
          EqualFold(ks[i].Address, key.Address) /\ ks[i].ChainID = key.ChainID
    THEN LET i == CHOOSE i \in 1..Len(ks) :
                    EqualFold(ks[i].Address, key.Address) /\ ks[i].ChainID = key.ChainID
         IN [keys |-> [ks EXCEPT ![i] = [@ EXCEPT !.PrivateKey = key.PrivateKey,
                                                  !.RValues = key.RValues,
                                                  !.TxHashes = key.TxHashes]],
             id |-> ks[i].ID]
    ELSE [keys |-> Append(ks, [key EXCEPT !.ID = Len(ks) + 1,
                                          !.Address = ToLower(key.Address)]),
          id |-> Len(ks) + 1]

\* Database.SaveRecoveredKey
SaveRecoveredKeyOp(im, ks, key) ==
    IF im = "mock" THEN MockSaveRecoveredKey(ks, key) ELSE DBSaveRecoveredKey(ks, key)

\* MockDB.IsKeyRecovered: k.Address == address
MockIsKeyRecovered(ks, address, chainID) ==
    \E i \in 1..Len(ks) : ks[i].Address = address /\ ks[i].ChainID = chainID

\* DB.IsKeyRecovered: WHERE address = hexToBytes(address) AND chain_id = ..
DBIsKeyRecovered(ks, address, chainID) ==
    \E i \in 1..Len(ks) : EqualFold(ks[i].Address, address) /\ ks[i].ChainID = chainID

\* Database.IsKeyRecovered
IsKeyRecoveredOp(im, ks, address, chainID) ==
    IF im = "mock" THEN MockIsKeyRecovered(ks, address, chainID)
    ELSE DBIsKeyRecovered(ks, address, chainID)

\* SaveRecoveredNonce: MockDB replaces the row; DB inserts, and on conflict
\* updates k_value only
SaveRecoveredNonceOp(im, ns, nonce) ==
    LET row == [KValue |-> nonce.KValue, DerivedFromKeyID |-> nonce.DerivedFromKeyID]
    IN IF nonce.RValue \in DOMAIN ns
       THEN IF im = "mock" THEN [ns EXCEPT ![nonce.RValue] = row]
            ELSE [ns EXCEPT ![nonce.RValue].KValue = nonce.KValue]
       ELSE ns @@ (nonce.RValue :> row)

\* GetRecoveredNonce: the row, or ErrNotFound / sql.ErrNoRows
GetRecoveredNonceOp(ns, rValue) ==
    IF rValue \in DOMAIN ns
    THEN [err |-> FALSE, RValue |-> rValue, KValue |-> ns[rValue].KValue,
          DerivedFromKeyID |-> ns[rValue].DerivedFromKeyID]
    ELSE [err |-> TRUE]

\* HasCrossKeyPotential: MockDB answers false; DB counts the other addresses
\* of the R value in the collisions table
HasCrossKeyPotentialOp(im, col, rValue, excludeAddress) ==
    IF im = "mock" THEN FALSE
    ELSE \E x \in col : x.RValue = rValue /\ ~EqualFold(x.Address, excludeAddress)

\* SavePendingComponent: MockDB appends; DB upserts on component_hash, the
\* first R value, replacing tx_hashes, addresses, equations and unknowns
SavePendingComponentOp(im, cs, comp) ==
    IF im = "live" /\ \E i \in 1..Len(cs) : cs[i].RValues[1] = comp.RValues[1]
    THEN LET i == CHOOSE i \in 1..Len(cs) : cs[i].RValues[1] = comp.RValues[1]
         IN [cs EXCEPT ![i] = [@ EXCEPT !.TxHashes = comp.TxHashes,
                                        !.Addresses = [n \in 1..2 |-> ToLower(comp.Addresses[n])],
                                        !.Equations = comp.Equations,
                                        !.Unknowns = comp.Unknowns]]
    ELSE Append(cs, [comp EXCEPT !.ID = Len(cs) + 1,
                                 !.Addresses = IF im = "mock" THEN @
                                               ELSE [n \in 1..2 |-> ToLower(@[n])]])

(***************************************************************************)
(* The key and nonce operations as their callers see them (SpecKeys).      *)
(***************************************************************************)
\* db.RecoveredKey values as attemptSameKeyRecovery builds them: the
\* address lower-cased, the private key as hex
KeyArgs ==
    {[ID |-> 0, Address |-> ToLower(AddressHex(d)), PrivateKey |-> HexEncode(p),
      ChainID |-> c, RValues |-> <<9>>, TxHashes |-> <<Lower(1), Lower(3)>>] :
        d \in {2, 5}, p \in {2, 5}, c \in Chains}

\* the forms in which an address is passed: from.Hex() and its lower case
AddressArgs == {AddressHex(2), ToLower(AddressHex(2)), ToLower(AddressHex(5))}

NonceArgs ==
    {[RValue |-> r, KValue |-> HexEncode(k), DerivedFromKeyID |-> i] :
        r \in {9}, k \in {3, 8}, i \in {1, 2}}

SaveRecoveredKey(c, key) ==
    /\ CanCall(c)
    /\ LET res == SaveRecoveredKeyOp(impl, keys, key)
       IN /\ keys' = res.keys
          /\ callers' = [callers EXCEPT ![c] =
                [pc |-> "idle", op |-> "savekey", tx |-> 0,
                 ret |-> [kind |-> "savekey", id |-> res.id]]]
    /\ lastCall' = [op |-> "savekey", key |-> key, before |-> keys,
                    ret |-> callers'[c].ret]
    /\ ncalls' = ncalls + 1
    /\ UNCHANGED <<orchVars, loopVars, utilVars, pool, impl, sysVars, rValues, collisions, nonces, comps, passed>>

IsKeyRecovered(c, address, chainID) ==
    /\ CanCall(c)
    /\ callers' = [callers EXCEPT ![c] =
          [pc |-> "idle", op |-> "iskey", tx |-> 0,
           ret |-> [kind |-> "iskey",
                    recovered |-> IsKeyRecoveredOp(impl, keys, address, chainID)]]]
    /\ lastCall' = [op |-> "iskey", address |-> address, chainID |-> chainID,
                    before |-> keys, ret |-> callers'[c].ret]
    /\ ncalls' = ncalls + 1
    /\ UNCHANGED <<orchVars, loopVars, utilVars, pool, impl, sysVars, dbVars, passed>>

SaveRecoveredNonce(c, nonce) ==
    /\ CanCall(c)
    /\ nonces' = SaveRecoveredNonceOp(impl, nonces, nonce)
    /\ callers' = [callers EXCEPT ![c] =
          [pc |-> "idle", op |-> "savenonce", tx |-> 0, ret |-> NoRet]]
    /\ lastCall' = [op |-> "savenonce", nonce |-> nonce, before |-> nonces,
                    ret |-> NoRet]
    /\ ncalls' = ncalls + 1
    /\ UNCHANGED <<orchVars, loopVars, utilVars, pool, impl, sysVars, rValues, collisions, keys, comps, passed>>

GetRecoveredNonce(c, rValue) ==
    /\ CanCall(c)
    /\ callers' = [callers EXCEPT ![c] =
          [pc |-> "idle", op |-> "getnonce", tx |-> 0,
           ret |-> [kind |-> "getnonce", nonce |-> GetRecoveredNonceOp(nonces, rValue)]]]
    /\ lastCall' = [op |-> "getnonce", rValue |-> rValue, before |-> nonces,
                    ret |-> callers'[c].ret]
    /\ ncalls' = ncalls + 1
    /\ UNCHANGED <<orchVars, loopVars, utilVars, pool, impl, sysVars, dbVars, passed>>

NextKeys ==
    \/ \E c \in Callers, key \in KeyArgs : SaveRecoveredKey(c, key)
    \/ \E c \in Callers, a \in AddressArgs, ch \in Chains : IsKeyRecovered(c, a, ch)
    \/ \E c \in Callers, nonce \in NonceArgs : SaveRecoveredNonce(c, nonce)
    \/ \E c \in Callers, r \in {9, 5} : GetRecoveredNonce(c, r)

SpecKeys == InitIndex /\ [][NextKeys]_vars

(***************************************************************************)
(* The scanner: block ingestion, the collision channel and its workers.    *)
(***************************************************************************)
\* key A signs twice with nonce 3 (r = 9), key B signs once with nonce 3
S2Pool ==
    (1 :> [chain |-> 1, d |-> 2, z |-> 1, k |-> 3]) @@
    (2 :> [chain |-> 1, d |-> 2, z |-> 3, k |-> 3]) @@
    (3 :> [chain |-> 1, d |-> 5, z |-> 3, k |-> 3])

\* key A signs twice with nonce 3 and once with nonce n - 3 = 8, which has
\* the same r; the third signature has the s of the second
TwinPool ==
    (1 :> [chain |-> 1, d |-> 2, z |-> 1, k |-> 3]) @@
    (2 :> [chain |-> 1, d |-> 2, z |-> 3, k |-> 3]) @@
    (4 :> [chain |-> 1, d |-> 2, z |-> 5, k |-> 8])

\* key A signs three times with nonce 3
TriplePool ==
    (1 :> [chain |-> 1, d |-> 2, z |-> 1, k |-> 3]) @@
    (2 :> [chain |-> 1, d |-> 2, z |-> 3, k |-> 3]) @@
    (5 :> [chain |-> 1, d |-> 2, z |-> 6, k |-> 3])

\* key B signs on chain 1, key A signs on chain 1 and on chain 137, all with
\* nonce 3: collisions across keys and across chains
ChainPool ==
    (1 :> [chain |-> 1, d |-> 2, z |-> 1, k |-> 3]) @@
    (3 :> [chain |-> 1, d |-> 5, z |-> 3, k |-> 3]) @@
    (6 :> [chain |-> 137, d |-> 2, z |-> 3, k |-> 3])

OrchPools == {S2Pool, TwinPool, TriplePool, ChainPool}

\* Scanner.systemAddresses
SystemAddresses == {Lower(7)}

\* the filter of scanBlock without the system-address test
EligibleNoSystemTest(t) ==
    /\ TxRWire(t) # <<>>
    /\ TxRWire(t) # <<0>>

\* the filter of scanBlock: tx.R is compared with "" and with "0x0" (no
\* transaction of a pool has an empty From)
Eligible(t) ==
    /\ TxRWire(t) # <<>>
    /\ TxRWire(t) # <<0>>
    /\ ToLower(TxFrom(t)) \notin SystemAddresses

RECURSIVE FilterInputs(_)
FilterInputs(b) ==
    IF b = <<>> THEN <<>>
    ELSE IF Eligible(Head(b)) THEN <<TxInput(Head(b))>> \o FilterInputs(Tail(b))
         ELSE FilterInputs(Tail(b))

\* batch_check_and_insert of the PostgreSQL adapter, one entry: insert the
\* witness, ignore the witness's own pair, otherwise record a collision row
\* and return the collision
DBBatchStep(st, tx) ==
    IF tx.RValue \notin DOMAIN st.rValues
    THEN [st EXCEPT !.rValues = @ @@ (tx.RValue :> TxRef(tx.TxHash, tx.ChainID))]
    ELSE IF EqualFold(st.rValues[tx.RValue].TxHash, tx.TxHash) THEN st
    ELSE [st EXCEPT !.collisions = InsertCollision(@,
                        [RValue |-> tx.RValue, TxHash |-> tx.TxHash,
                         ChainID |-> tx.ChainID, Address |-> tx.Address]),
                    !.out = Append(@, CollisionResult(tx, st.rValues[tx.RValue]))]

RECURSIVE DBBatchLoop(_, _)
DBBatchLoop(st, txs) ==
    IF txs = <<>> THEN st
    ELSE DBBatchLoop(DBBatchStep(st, Head(txs)), Tail(txs))

\* Database.BatchCheckAndInsertRValues
BatchOp(im, rv, col, txs) ==
    IF im = "mock"
    THEN [rValues |-> MockBatch(rv, txs).rValues, collisions |-> col,
          out |-> MockBatch(rv, txs).out]
    ELSE DBBatchLoop([rValues |-> rv, collisions |-> col, out |-> <<>>], txs)

CollisionEvent(c) ==
    [RValue |-> c.RValue, NewTxHash |-> c.TxHash, NewChainID |-> c.ChainID,
     NewAddress |-> c.Address, FirstTxRef |-> c.FirstTxRef]

\* the loop of scanBlock with a send that always succeeds
RECURSIVE PublishUnbounded(_, _)
PublishUnbounded(st, out) ==
    IF out = <<>> THEN st
    ELSE PublishUnbounded([st EXCEPT !.chan = Append(@, CollisionEvent(Head(out)))],
                          Tail(out))

\* the select of scanBlock: send when the channel has room, else drop
RECURSIVE Publish(_, _)
Publish(st, out) ==
    IF out = <<>> THEN st
    ELSE IF Len(st.chan) < ChanCap
         THEN Publish([st EXCEPT !.chan = Append(@, CollisionEvent(Head(out)))], Tail(out))
         ELSE Publish([st EXCEPT !.dropped = @ \cup {CollisionEvent(Head(out))}], Tail(out))

\* the blocks a chain may hold next: transactions not scanned yet, all of
\* one chain
Blocks ==
    {b \in UNION {[1..n -> DOMAIN pool \ scanned] : n \in 1..MaxBatchLen} :
        /\ \A i, j \in 1..Len(b) : i # j => b[i] # b[j]
        /\ \A i \in 1..Len(b) : TxChain(b[i]) = TxChain(b[1])}

\* Scanner.scanBlock on block b: filter, batch insert, publish
ScanBody(b) ==
    /\ LET txInputs == FilterInputs(b)
           res == BatchOp(impl, rValues, collisions, txInputs)
           pub == Publish([chan |-> collisionChan, dropped |-> dropped], res.out)
       IN IF txInputs = <<>>
          THEN UNCHANGED <<rValues, collisions, collisionChan, dropped>>
          ELSE /\ rValues' = res.rValues
               /\ collisions' = res.collisions
               /\ collisionChan' = pub.chan
               /\ dropped' = pub.dropped
    /\ UNCHANGED <<pool, impl, sysVars, utilVars, keys, nonces, comps, apiVars, recoveryEnabled,
                   workers, handled>>

\* Scanner.scanBlock, called by the scan loop on the next block
ScanBlock(b) ==
    /\ scanned' = scanned \cup {b[i] : i \in 1..Len(b)}
    /\ UNCHANGED <<rescanned, loopVars>>
    /\ ScanBody(b)

\* Scanner.scanBlock, called again on a block already processed: the scan
\* loop restarts from the saved cursor, which lags the processed height
RescanBlock(b) ==
    /\ \A i \in 1..Len(b) : b[i] \in scanned \ rescanned
    /\ rescanned' = rescanned \cup {b[i] : i \in 1..Len(b)}
    /\ UNCHANGED <<scanned, loopVars>>
    /\ ScanBody(b)

\* Scanner.SetRecoveryEnabled
SetRecoveryEnabled(enabled) ==
    /\ recoveryEnabled' = enabled
    /\ UNCHANGED <<pool, impl, sysVars, loopVars, utilVars, dbVars, apiVars, collisionChan, workers, scanned, rescanned,
                   dropped, handled>>

\* Scanner.fetchTxData: the transaction with this hash on this chain, as
\* the node returns it; From is from.Hex()
CanFetch(txHash, chainID) ==
    \E t \in DOMAIN pool : EqualFold(TxHashOf(t), txHash) /\ TxChain(t) = chainID

fetchTxData(txHash, chainID) ==
    LET t == CHOOSE t \in DOMAIN pool :
                 EqualFold(TxHashOf(t), txHash) /\ TxChain(t) = chainID
    IN [Hash |-> txHash, ChainID |-> chainID, From |-> TxFrom(t),
        Z |-> TxZ(t), R |-> HexToBig(TxRWire(t)), S |-> TxS(t)]

\* the handler of worker w returns: its locals are gone, the outcome of
\* the event is noted
Return(w, outcome) ==
    /\ workers' = [workers EXCEPT ![w] = IdleWorker]
    /\ handled' = handled \cup {[tx |-> workers[w].ev.NewTxHash, outcome |-> outcome]}

\* processCollisions handling every event, whatever recoveryEnabled says
DequeueIgnoringToggle(w) ==
    /\ workers[w].pc = "idle"
    /\ collisionChan # <<>>
    /\ collisionChan' = Tail(collisionChan)
    /\ workers' = [workers EXCEPT ![w] =
           [IdleWorker EXCEPT !.pc = "fetch", !.ev = Head(collisionChan)]]
    /\ UNCHANGED <<pool, impl, sysVars, loopVars, utilVars, dbVars, apiVars, recoveryEnabled, scanned, rescanned, dropped, handled>>

\* processCollisions: receive an event; skip it when recovery is disabled
Dequeue(w) ==
    /\ workers[w].pc = "idle"
    /\ collisionChan # <<>>
    /\ collisionChan' = Tail(collisionChan)
    /\ IF ~recoveryEnabled
       THEN /\ handled' = handled \cup
                    {[tx |-> Head(collisionChan).NewTxHash, outcome |-> "discarded"]}
            /\ UNCHANGED workers
       ELSE /\ workers' = [workers EXCEPT ![w] =
                    [IdleWorker EXCEPT !.pc = "fetch", !.ev = Head(collisionChan)]]
            /\ UNCHANGED handled
    /\ UNCHANGED <<pool, impl, sysVars, loopVars, utilVars, dbVars, apiVars, recoveryEnabled, scanned, rescanned, dropped>>

\* handleCollision: both fetches succeed; classify the collision
FetchTxs(w) ==
    /\ workers[w].pc = "fetch"
    /\ LET ev == workers[w].ev
       IN /\ CanFetch(ev.FirstTxRef.TxHash, ev.FirstTxRef.ChainID)
          /\ CanFetch(ev.NewTxHash, ev.NewChainID)
          /\ LET tx1Data == fetchTxData(ev.FirstTxRef.TxHash, ev.FirstTxRef.ChainID)
                 tx2Data == fetchTxData(ev.NewTxHash, ev.NewChainID)
                 isSameKey == EqualFold(tx1Data.From, tx2Data.From)
             IN workers' = [workers EXCEPT ![w] =
                    [@ EXCEPT !.pc = IF isSameKey THEN "sk_check" ELSE "ck_nonce",
                              !.tx1 = tx1Data, !.tx2 = tx2Data]]
    /\ UNCHANGED <<pool, impl, sysVars, loopVars, utilVars, dbVars, apiVars, collisionChan, recoveryEnabled,
                   scanned, rescanned, dropped, handled>>

\* handleCollision: a fetch fails (RPC error, timeout) and the handler returns
FetchFail(w) ==
    /\ workers[w].pc = "fetch"
    /\ Return(w, "fetch_failed")
    /\ UNCHANGED <<pool, impl, sysVars, loopVars, utilVars, dbVars, apiVars, collisionChan, recoveryEnabled,
                   scanned, rescanned, dropped>>

\* attemptSameKeyRecovery up to the verification
SameKeyCheck(w) ==
    /\ workers[w].pc = "sk_check"
    /\ LET tx1 == workers[w].tx1
           tx2 == workers[w].tx2
           rec == RecoverFromSignatures(tx1.Z, tx1.R, tx1.S, tx2.Z, tx2.R, tx2.S)
       IN IF IsKeyRecoveredOp(impl, keys, tx1.From, tx1.ChainID)
          THEN Return(w, "already")
          ELSE IF rec.err THEN Return(w, "recover_err")
          ELSE IF ~VerifyPrivateKey(rec.key, tx1.From) THEN Return(w, "verify_failed")
          ELSE /\ workers' = [workers EXCEPT ![w] =
                      [@ EXCEPT !.pc = "sk_save", !.priv = rec.key]]
               /\ UNCHANGED handled
    /\ UNCHANGED <<pool, impl, sysVars, loopVars, utilVars, dbVars, apiVars, collisionChan, recoveryEnabled,
                   scanned, rescanned, dropped>>

\* attemptSameKeyRecovery: SaveRecoveredKey
SameKeySave(w) ==
    /\ workers[w].pc = "sk_save"
    /\ LET tx1 == workers[w].tx1
           tx2 == workers[w].tx2
           res == SaveRecoveredKeyOp(impl, keys,
                      [ID |-> 0, Address |-> ToLower(tx1.From),
                       PrivateKey |-> workers[w].priv, ChainID |-> tx1.ChainID,
                       RValues |-> <<workers[w].ev.RValue>>,
                       TxHashes |-> <<tx1.Hash, tx2.Hash>>])
       IN /\ keys' = res.keys
          /\ workers' = [workers EXCEPT ![w] =
                [@ EXCEPT !.pc = "sk_cross", !.keyID = res.id]]
    /\ UNCHANGED <<pool, impl, sysVars, loopVars, utilVars, rValues, collisions, nonces, comps, apiVars,
                   collisionChan, recoveryEnabled, scanned, rescanned, dropped, handled>>

\* attemptSameKeyRecovery: HasCrossKeyPotential
SameKeyCross(w) ==
    /\ workers[w].pc = "sk_cross"
    /\ IF HasCrossKeyPotentialOp(impl, collisions, workers[w].ev.RValue,
                                 workers[w].tx1.From)
       THEN /\ workers' = [workers EXCEPT ![w] = [@ EXCEPT !.pc = "sk_nonce"]]
            /\ UNCHANGED handled
       ELSE Return(w, "saved")
    /\ UNCHANGED <<pool, impl, sysVars, loopVars, utilVars, dbVars, apiVars, collisionChan, recoveryEnabled,
                   scanned, rescanned, dropped>>

\* attemptSameKeyRecovery: DeriveNonce and SaveRecoveredNonce
SameKeyNonce(w) ==
    /\ workers[w].pc = "sk_nonce"
    /\ LET tx1 == workers[w].tx1
           nonce == DeriveNonce(tx1.Z, tx1.R, tx1.S, workers[w].priv)
       IN /\ nonces' = SaveRecoveredNonceOp(impl, nonces,
                          [RValue |-> workers[w].ev.RValue, KValue |-> nonce,
                           DerivedFromKeyID |-> workers[w].keyID])
          /\ workers' = [workers EXCEPT ![w] =
                [@ EXCEPT !.pc = "sk_pending", !.nonce = nonce]]
    /\ UNCHANGED <<pool, impl, sysVars, loopVars, utilVars, rValues, collisions, keys, comps, apiVars,
                   collisionChan, recoveryEnabled, scanned, rescanned, dropped, handled>>

\* checkPendingComponents: reads the pending components and logs
checkPendingComponents(w) ==
    /\ workers[w].pc = "sk_pending"
    /\ Return(w, "saved_nonce")
    /\ UNCHANGED <<pool, impl, sysVars, loopVars, utilVars, dbVars, apiVars, collisionChan, recoveryEnabled,
                   scanned, rescanned, dropped>>

\* handleCollision, cross-key: GetRecoveredNonce
CrossKeyNonce(w) ==
    /\ workers[w].pc = "ck_nonce"
    /\ LET knownNonce == GetRecoveredNonceOp(nonces, workers[w].ev.RValue)
       IN workers' = [workers EXCEPT ![w] =
              IF ~knownNonce.err
              THEN [@ EXCEPT !.pc = "ck_check", !.nonce = knownNonce.KValue]
              ELSE [@ EXCEPT !.pc = "ck_pending"]]
    /\ UNCHANGED <<pool, impl, sysVars, loopVars, utilVars, dbVars, apiVars, collisionChan, recoveryEnabled,
                   scanned, rescanned, dropped, handled>>

\* attemptCrossKeyRecoveryWithKnownNonce up to the verification
CrossKeyCheck(w) ==
    /\ workers[w].pc = "ck_check"
    /\ LET txData == workers[w].tx2
           rec == RecoverWithKnownNonce(txData.Z, txData.R, txData.S, workers[w].nonce)
       IN IF IsKeyRecoveredOp(impl, keys, txData.From, txData.ChainID)
          THEN Return(w, "already")
          ELSE IF rec.err THEN Return(w, "recover_err")
          ELSE IF ~VerifyPrivateKey(rec.key, txData.From) THEN Return(w, "verify_failed")
          ELSE /\ workers' = [workers EXCEPT ![w] =
                      [@ EXCEPT !.pc = "ck_save", !.priv = rec.key]]
               /\ UNCHANGED handled
    /\ UNCHANGED <<pool, impl, sysVars, loopVars, utilVars, dbVars, apiVars, collisionChan, recoveryEnabled,
                   scanned, rescanned, dropped>>

\* attemptCrossKeyRecoveryWithKnownNonce: SaveRecoveredKey
CrossKeySave(w) ==
    /\ workers[w].pc = "ck_save"
    /\ LET txData == workers[w].tx2
       IN keys' = SaveRecoveredKeyOp(impl, keys,
                      [ID |-> 0, Address |-> ToLower(txData.From),
                       PrivateKey |-> workers[w].priv, ChainID |-> txData.ChainID,
                       RValues |-> <<workers[w].ev.RValue>>,
                       TxHashes |-> <<txData.Hash>>]).keys
    /\ Return(w, "saved")
    /\ UNCHANGED <<pool, impl, sysVars, loopVars, utilVars, rValues, collisions, nonces, comps, apiVars,
                   collisionChan, recoveryEnabled, scanned, rescanned, dropped>>

\* Scanner.savePendingComponent
savePendingComponent(w) ==
    /\ workers[w].pc = "ck_pending"
    /\ LET tx1 == workers[w].tx1
           tx2 == workers[w].tx2
       IN comps' = SavePendingComponentOp(impl, comps,
                      [ID |-> 0, RValues |-> <<workers[w].ev.RValue>>,
                       TxHashes |-> <<tx1.Hash, tx2.Hash>>,
                       Addresses |-> <<tx1.From, tx2.From>>,
                       ChainIDs |-> <<tx1.ChainID, tx2.ChainID>>,
                       Equations |-> 2, Unknowns |-> 3])
    /\ Return(w, "pending")
    /\ UNCHANGED <<pool, impl, sysVars, loopVars, utilVars, rValues, collisions, keys, nonces, apiVars,
                   collisionChan, recoveryEnabled, scanned, rescanned, dropped>>

\* the steps of the same-key handler, and all steps of one worker
SameKeyStep(w) ==
    \/ SameKeyCheck(w)
    \/ SameKeySave(w)
    \/ SameKeyCross(w)

WorkerStep(w) ==
    \/ Dequeue(w)
    \/ FetchTxs(w)
    \/ SameKeyStep(w)
    \/ SameKeyNonce(w)
    \/ checkPendingComponents(w)
    \/ CrossKeyNonce(w)
    \/ CrossKeyCheck(w)
    \/ CrossKeySave(w)
    \/ savePendingComponent(w)

InitApiIdle ==
    /\ callers = [c \in Callers |-> IdleCaller]
    /\ lastCall = [op |-> "none", txs |-> <<>>, before |-> EmptyMap,
                   ret |-> NoRet]
    /\ passed = {}
    /\ ncalls = 0

InitOrch ==
    /\ pool \in OrchPools
    /\ impl \in {"mock", "live"}
    /\ InitDB
    /\ InitSys
    /\ InitApiIdle
    /\ InitScanner
    /\ InitChainIdle
    /\ InitUtilIdle

NextOrch ==
    \/ \E b \in Blocks : ScanBlock(b)
    \/ \E enabled \in BOOLEAN : SetRecoveryEnabled(enabled)
    \/ \E w \in Workers : Dequeue(w)
    \/ \E w \in Workers : FetchTxs(w)
    \/ \E w \in Workers : FetchFail(w)
    \/ \E w \in Workers : SameKeyCheck(w)
    \/ \E w \in Workers : SameKeySave(w)
    \/ \E w \in Workers : SameKeyCross(w)
    \/ \E w \in Workers : SameKeyNonce(w)
    \/ \E w \in Workers : checkPendingComponents(w)
    \/ \E w \in Workers : CrossKeyNonce(w)
    \/ \E w \in Workers : CrossKeyCheck(w)
    \/ \E w \in Workers : CrossKeySave(w)
    \/ \E w \in Workers : savePendingComponent(w)

SpecOrch == InitOrch /\ [][NextOrch]_vars

(***************************************************************************)
(* The same-key scenario: one key signs two hashes with one nonce, and the *)
(* two transactions arrive in separate blocks (SpecS1).                    *)
(***************************************************************************)
S1Keys == {1, 2, 10}

S1Hashes == {0, 1, 3, 10}

\* generateKey, generateNonce, generateHash and signWithNonce of the
\* scanner tests; a signer never emits s = 0
S1Pools ==
    {(1 :> [chain |-> 1, d |-> q[1], z |-> q[3], k |-> q[2]]) @@
     (2 :> [chain |-> 1, d |-> q[1], z |-> q[4], k |-> q[2]]) :
        q \in {q \in S1Keys \X (1..(secp256k1N - 1)) \X S1Hashes \X S1Hashes :
                  /\ q[3] # q[4]
                  /\ SignS(q[1], q[3], q[2]) # 0
                  /\ SignS(q[1], q[4], q[2]) # 0}}

InitS1 ==
    /\ pool \in S1Pools
    /\ impl \in {"mock", "live"}
    /\ InitDB
    /\ InitSys
    /\ InitApiIdle
    /\ InitScanner
    /\ InitChainIdle
    /\ InitUtilIdle

\* the scan loop takes the next block, which holds one transaction
ScanNext == \E t \in DOMAIN pool \ scanned : ScanBlock(<<t>>)

NextS1 ==
    \/ ScanNext
    \/ \E enabled \in BOOLEAN : SetRecoveryEnabled(enabled)
    \/ \E w \in Workers : Dequeue(w)
    \/ \E w \in Workers : FetchTxs(w)
    \/ \E w \in Workers : FetchFail(w)
    \/ \E w \in Workers : SameKeyCheck(w)
    \/ \E w \in Workers : SameKeySave(w)
    \/ \E w \in Workers : SameKeyCross(w)

\* the scan loop and every worker goroutine keep running
SpecS1 ==
    /\ InitS1
    /\ [][NextS1]_vars
    /\ WF_vars(ScanNext)
    /\ \A w \in Workers : WF_vars(WorkerStep(w))

(***************************************************************************)
(* The replay scenario: the two blocks of the same-key scenario are        *)
(* ingested, their event is handled, and the blocks are ingested a second  *)
(* time (SpecS6).                                                          *)
(***************************************************************************)
\* the first ingestion is over: both blocks scanned, the event handled
FirstPassDone ==
    /\ scanned = DOMAIN pool
    /\ collisionChan = <<>>
    /\ \A w \in Workers : workers[w].pc = "idle"

\* the scan loop processes again a block it has processed
ReplayNext ==
    /\ FirstPassDone
    /\ \E t \in scanned \ rescanned : RescanBlock(<<t>>)

NextS6 ==
    \/ NextS1
    \/ ReplayNext

SpecS6 == InitS1 /\ [][NextS6]_vars

(***************************************************************************)
(* The system-address scenario: key 7 is the sender of the L2 deposit      *)
(* transactions; it and key A sign with the same nonce (SpecS5).           *)
(***************************************************************************)
S5Pool ==
    (1 :> [chain |-> 1, d |-> 2, z |-> 1, k |-> 3]) @@
    (2 :> [chain |-> 1, d |-> 2, z |-> 3, k |-> 3]) @@
    (7 :> [chain |-> 1, d |-> 7, z |-> 1, k |-> 3]) @@
    (8 :> [chain |-> 1, d |-> 7, z |-> 4, k |-> 3])

InitS5 ==
    /\ pool = S5Pool
    /\ impl \in {"mock", "live"}
    /\ InitDB
    /\ InitSys
    /\ InitApiIdle
    /\ InitScanner
    /\ InitChainIdle
    /\ InitUtilIdle

NextS5 ==
    \/ \E b \in Blocks : ScanBlock(b)
    \/ NextS1

SpecS5 == InitS5 /\ [][NextS5]_vars

(***************************************************************************)
(* Blocks with transactions whose r is zero (SpecZeroR): the node sends    *)
(* the r of such a transaction as "", "0x0", "0x00" or a longer run of     *)
(* zeros.                                                                  *)
(***************************************************************************)
ZeroRPool ==
    (1 :> [chain |-> 1, d |-> 2, z |-> 1, k |-> 3]) @@
    (2 :> [chain |-> 1, d |-> 2, z |-> 3, k |-> 3]) @@
    (9 :> [chain |-> 1, d |-> 5, z |-> 0, k |-> 1, r |-> <<>>]) @@
    (10 :> [chain |-> 1, d |-> 5, z |-> 0, k |-> 1, r |-> <<0>>]) @@
    (11 :> [chain |-> 1, d |-> 5, z |-> 0, k |-> 1, r |-> <<0, 0>>]) @@
    (12 :> [chain |-> 1, d |-> 4, z |-> 0, k |-> 1, r |-> <<0, 0, 0, 0>>])

InitZeroR ==
    /\ pool = ZeroRPool
    /\ impl \in {"mock", "live"}
    /\ InitDB
    /\ InitSys
    /\ InitApiIdle
    /\ InitScanner
    /\ InitChainIdle
    /\ InitUtilIdle

NextZeroR ==
    \/ \E b \in Blocks : ScanBlock(b)
    \/ \E t \in scanned \ rescanned : RescanBlock(<<t>>)

SpecZeroR == InitZeroR /\ [][NextZeroR]_vars

(***************************************************************************)
(* The cyclic scenario: A and B sign with k1 = 3, B and C with k2 = 4, C   *)
(* and A with k3 = 2; keys A = 2, B = 5, C = 3 (SpecS4).                   *)
(***************************************************************************)
S4Pool ==
    (11 :> [chain |-> 1, d |-> 2, z |-> 1, k |-> 3]) @@
    (12 :> [chain |-> 1, d |-> 5, z |-> 3, k |-> 3]) @@
    (13 :> [chain |-> 1, d |-> 5, z |-> 2, k |-> 4]) @@
    (14 :> [chain |-> 1, d |-> 3, z |-> 6, k |-> 4]) @@
    (15 :> [chain |-> 1, d |-> 3, z |-> 4, k |-> 2]) @@
    (16 :> [chain |-> 1, d |-> 2, z |-> 7, k |-> 2])

InitS4 ==
    /\ pool = S4Pool
    /\ impl \in {"mock", "live"}
    /\ InitDB
    /\ InitSys
    /\ InitApiIdle
    /\ InitScanner
    /\ InitChainIdle
    /\ InitUtilIdle

\* every collision of the scenario is cross-key and no nonce is ever known,
\* so these are the steps the scanner can take
NextS4 ==
    \/ ScanNext
    \/ \E enabled \in BOOLEAN : SetRecoveryEnabled(enabled)
    \/ \E w \in Workers : Dequeue(w)
    \/ \E w \in Workers : FetchTxs(w)
    \/ \E w \in Workers : FetchFail(w)
    \/ \E w \in Workers : CrossKeyNonce(w)
    \/ \E w \in Workers : savePendingComponent(w)

SpecS4 == InitS4 /\ [][NextS4]_vars

(***************************************************************************)
(* The scan loop of one chain (SpecLoop).  StartChain makes a stop channel *)
(* and starts a scanLoop goroutine; StopChain closes the channel the field *)
(* holds.  Channels are numbered in the order they are made; 0 is the nil  *)
(* channel of a scanner never started.  The block at height h holds        *)
(* transaction h of the pool.                                              *)
(***************************************************************************)
MaxLoops == 2

MaxHeight == 2

\* the 1000 blocks a scanner without cursor starts behind the head, scaled
Lookback == 1

\* the cursor is saved at every 100th block, scaled
SaveEvery == 2

\* heights are uint64, scaled: latestBlock - 1000 wraps around
HeightMod == 8

Loops == 1..Len(loops)

\* the locals of a scanLoop goroutine started with stop channel ch; seen is
\* the value of cs.stopChan as of the goroutine's last acquisition of
\* cs.mu, checked the channel its last select received from
NewLoop(ch) ==
    [pc |-> "init", gen |-> ch, seen |-> ch, checked |-> 0, lastBlock |-> 0,
     latest |-> 0, nextBlock |-> 0]

\* the goroutine sleeps and continues with the next iteration: it held
\* cs.mu in this one, and latestBlock, nextBlock and the channel of the
\* select go out of scope
EndIteration(lp) ==
    [lp EXCEPT !.pc = "top", !.seen = stopChan, !.checked = 0, !.latest = 0,
               !.nextBlock = 0]

\* the goroutine returns
Returned(lp) ==
    [NewLoop(lp.gen) EXCEPT !.pc = "done"]

BlockAt(h) == IF h \in DOMAIN pool THEN <<h>> ELSE <<>>

\* the chain produces a block, as long as its head is below height h
ProduceBlock(h) ==
    /\ latestBlock < h
    /\ latestBlock' = latestBlock + 1
    /\ UNCHANGED <<pool, impl, sysVars, dbVars, apiVars, orchVars, utilVars, running,
                   stopChan, closed, loops, cursor>>

NewBlock == ProduceBlock(MaxHeight)

\* Scanner.StartChain on a chain that is not running
StartChain ==
    /\ Len(loops) < MaxLoops
    /\ ~running
    /\ running' = TRUE
    /\ stopChan' = stopChan + 1
    /\ loops' = Append(loops, NewLoop(stopChan + 1))
    /\ UNCHANGED <<pool, impl, sysVars, dbVars, apiVars, orchVars, utilVars, closed,
                   latestBlock, cursor>>

\* Scanner.StopChain on a running chain
StopChain ==
    /\ running
    /\ running' = FALSE
    /\ closed' = closed \cup {stopChan}
    /\ UNCHANGED <<pool, impl, sysVars, dbVars, apiVars, orchVars, utilVars, stopChan,
                   loops, latestBlock, cursor>>

\* DB.GetLastBlock may fail, and scanLoop, ignoring the error, goes on with
\* the 0 it returned; MockDB's cannot fail
GetLastBlock ==
    IF impl = "live" THEN {cursor, 0} ELSE {cursor}

\* scanLoop before the loop: reconnect when there is no client, then the
\* cursor, or the head minus the lookback
ScanLoopInit(l) ==
    /\ loops[l].pc = "init"
    /\ \E last \in GetLastBlock :
          loops' = [loops EXCEPT ![l].pc = "top",
                                 ![l].lastBlock =
                                     IF last # 0 THEN last
                                     ELSE (latestBlock - Lookback) % HeightMod]
    /\ client' = IF client = 0 THEN 1 ELSE client
    /\ UNCHANGED <<pool, impl, shutdown, dbClosed, writeVars, dbVars, apiVars, orchVars, utilVars, running,
                   stopChan, closed, latestBlock, cursor>>

\* scanLoop before the loop: reconnect fails, or there is no cursor and
\* getLatestBlock fails; the goroutine returns and running stays set
ScanLoopInitFail(l) ==
    /\ loops[l].pc = "init"
    /\ loops' = [loops EXCEPT ![l] = Returned(@)]
    /\ UNCHANGED <<pool, impl, sysVars, dbVars, apiVars, orchVars, utilVars, running,
                   stopChan, closed, latestBlock, cursor>>

\* the select at the top of the loop: it reads the field cs.stopChan
\* without holding cs.mu, so it gets the value it last saw or the current
\* one; a closed channel ends the goroutine
ScanLoopSelect(l) ==
    /\ loops[l].pc = "top"
    /\ \E ch \in {loops[l].seen, stopChan} :
          loops' = [loops EXCEPT ![l] = IF ch \in closed
                                        THEN Returned(@)
                                        ELSE [@ EXCEPT !.pc = "latest",
                                                       !.checked = ch]]
    /\ UNCHANGED <<pool, impl, sysVars, dbVars, apiVars, orchVars, utilVars, running,
                   stopChan, closed, latestBlock, cursor>>

\* getLatestBlock succeeds: sleep when caught up, else scan lastBlock + 1
ScanLoopLatest(l) ==
    /\ loops[l].pc = "latest"
    /\ loops' = [loops EXCEPT
                    ![l] = IF loops[l].lastBlock >= latestBlock
                           THEN EndIteration(@)
                           ELSE [@ EXCEPT !.pc = "scan",
                                          !.seen = stopChan,
                                          !.latest = latestBlock,
                                          !.nextBlock = loops[l].lastBlock + 1]]
    /\ UNCHANGED <<pool, impl, sysVars, dbVars, apiVars, orchVars, utilVars, running,
                   stopChan, closed, latestBlock, cursor>>

\* getLatestBlock fails: count the error, sleep, next iteration
ScanLoopLatestFail(l) ==
    /\ loops[l].pc = "latest"
    /\ loops' = [loops EXCEPT ![l] = EndIteration(@)]
    /\ UNCHANGED <<pool, impl, sysVars, dbVars, apiVars, orchVars, utilVars, running,
                   stopChan, closed, latestBlock, cursor>>

\* the bookkeeping after scanBlock, recording nextBlock + 1 as scanned
AdvanceSkipping(l) ==
    /\ loops' = [loops EXCEPT ![l] = [EndIteration(@) EXCEPT
                                         !.lastBlock = loops[l].nextBlock + 1]]
    /\ cursor' = IF loops[l].nextBlock % SaveEvery = 0
                 THEN loops[l].nextBlock ELSE cursor

\* DB.SaveLastBlock may fail and leave the row as it was; MockDB's cannot
SaveLastBlock(block) ==
    IF impl = "live" THEN {block, cursor} ELSE {block}

\* the bookkeeping after scanBlock succeeded: lastBlock = nextBlock, and
\* SaveLastBlock at every SaveEvery-th block, its error ignored
Advance(l) ==
    /\ loops' = [loops EXCEPT ![l] = [EndIteration(@) EXCEPT
                                         !.lastBlock = loops[l].nextBlock]]
    /\ IF loops[l].nextBlock % SaveEvery = 0
       THEN cursor' \in SaveLastBlock(loops[l].nextBlock)
       ELSE cursor' = cursor

\* scanBlock(nextBlock) succeeds
ScanLoopScan(l) ==
    /\ loops[l].pc = "scan"
    /\ LET b == BlockAt(loops[l].nextBlock)
           txs == {b[i] : i \in 1..Len(b)}
       IN /\ ScanBody(b)
          /\ scanned' = scanned \cup txs
          /\ rescanned' = rescanned \cup (txs \cap scanned)
    /\ Advance(l)
    /\ UNCHANGED <<running, stopChan, closed, latestBlock>>

\* scanBlock(nextBlock) fails: count the error, sleep, retry the block
ScanLoopScanFail(l) ==
    /\ loops[l].pc = "scan"
    /\ loops' = [loops EXCEPT ![l] = EndIteration(@)]
    /\ UNCHANGED <<pool, impl, sysVars, dbVars, apiVars, orchVars, utilVars, running,
                   stopChan, closed, latestBlock, cursor>>

InitLoop ==
    /\ pool = S2Pool
    /\ impl \in {"mock", "live"}
    /\ InitDB
    /\ InitSys
    /\ InitApiIdle
    /\ InitScanner
    /\ InitUtilIdle
    /\ running = FALSE
    /\ stopChan = 0
    /\ closed = {}
    /\ loops = <<>>
    /\ latestBlock \in 0..1
    /\ cursor = 0

NextLoop ==
    \/ NewBlock
    \/ StartChain
    \/ StopChain
    \/ \E l \in Loops : ScanLoopInit(l)
    \/ \E l \in Loops : ScanLoopInitFail(l)
    \/ \E l \in Loops : ScanLoopSelect(l)
    \/ \E l \in Loops : ScanLoopLatest(l)
    \/ \E l \in Loops : ScanLoopLatestFail(l)
    \/ \E l \in Loops : ScanLoopScan(l)
    \/ \E l \in Loops : ScanLoopScanFail(l)

SpecLoop == InitLoop /\ [][NextLoop]_vars

(***************************************************************************)
(* The scan loop over two save periods (SpecCursor): one transaction in    *)
(* each block, every transaction with an r of its own.                     *)
(***************************************************************************)
CursorPool ==
    (1 :> [chain |-> 1, d |-> 2, z |-> 1, k |-> 1]) @@
    (2 :> [chain |-> 1, d |-> 2, z |-> 2, k |-> 2]) @@
    (3 :> [chain |-> 1, d |-> 2, z |-> 3, k |-> 3]) @@
    (4 :> [chain |-> 1, d |-> 2, z |-> 4, k |-> 4])

InitCursor ==
    /\ pool = CursorPool
    /\ impl \in {"mock", "live"}
    /\ InitDB
    /\ InitSys
    /\ InitApiIdle
    /\ InitScanner
    /\ InitUtilIdle
    /\ running = FALSE
    /\ stopChan = 0
    /\ closed = {}
    /\ loops = <<>>
    /\ latestBlock = 1
    /\ cursor = 0

NextCursor ==
    \/ ProduceBlock(2 * SaveEvery)
    \/ StartChain
    \/ StopChain
    \/ \E l \in Loops : ScanLoopInit(l)
    \/ \E l \in Loops : ScanLoopInitFail(l)
    \/ \E l \in Loops : ScanLoopSelect(l)
    \/ \E l \in Loops : ScanLoopLatest(l)
    \/ \E l \in Loops : ScanLoopLatestFail(l)
    \/ \E l \in Loops : ScanLoopScan(l)
    \/ \E l \in Loops : ScanLoopScanFail(l)

SpecCursor == InitCursor /\ [][NextCursor]_vars

(***************************************************************************)
(* The circuit breaker (SpecBreaker): one retry.CircuitBreaker, a clock,   *)
(* and callers of Allow, RecordSuccess and RecordFailure.  cbLog keeps     *)
(* every call: its time, the breaker's open flag before and after it, and  *)
(* what Allow returned.                                                    *)
(***************************************************************************)
MaxEvents == 6

MaxTime == 3

\* the thresholds of the tests and of a chain scanner
Thresholds == {2, 3, ChainThreshold}

\* CircuitBreaker.Allow at time t: the breaker after the call and the result
Allow(b, t) ==
    IF ~b.open THEN [cb |-> b, ret |-> TRUE]
    ELSE IF t - b.lastFailure > b.resetAfter
         THEN [cb |-> [b EXCEPT !.open = FALSE, !.failures = 0], ret |-> TRUE]
         ELSE [cb |-> b, ret |-> FALSE]

\* CircuitBreaker.RecordSuccess
RecordSuccess(b) == [b EXCEPT !.failures = 0, !.open = FALSE]

\* RecordFailure opening only above the threshold
RecordFailureAbove(b, t) ==
    [b EXCEPT !.failures = @ + 1,
              !.lastFailure = t,
              !.open = IF b.failures + 1 > b.threshold THEN TRUE ELSE @]

\* CircuitBreaker.RecordFailure at time t
RecordFailure(b, t) ==
    [b EXCEPT !.failures = @ + 1,
              !.lastFailure = t,
              !.open = IF b.failures + 1 >= b.threshold THEN TRUE ELSE @]

CbEntry(op, after, ret) ==
    [op |-> op, at |-> now, was |-> cb.open, open |-> after.open, ret |-> ret]

CallAllow ==
    /\ Len(cbLog) < MaxEvents
    /\ cb' = Allow(cb, now).cb
    /\ allowed' = Allow(cb, now).ret
    /\ cbLog' = Append(cbLog, CbEntry("allow", Allow(cb, now).cb, Allow(cb, now).ret))
    /\ UNCHANGED <<pool, impl, sysVars, dbVars, apiVars, orchVars, loopVars, now, retry,
                   pureVars>>

CallRecordSuccess ==
    /\ Len(cbLog) < MaxEvents
    /\ cb' = RecordSuccess(cb)
    /\ cbLog' = Append(cbLog, CbEntry("success", RecordSuccess(cb), TRUE))
    /\ UNCHANGED <<pool, impl, sysVars, dbVars, apiVars, orchVars, loopVars, now, allowed,
                   retry,
                   pureVars>>

CallRecordFailure ==
    /\ Len(cbLog) < MaxEvents
    /\ cb' = RecordFailure(cb, now)
    /\ cbLog' = Append(cbLog, CbEntry("fail", RecordFailure(cb, now), TRUE))
    /\ UNCHANGED <<pool, impl, sysVars, dbVars, apiVars, orchVars, loopVars, now, allowed,
                   retry,
                   pureVars>>

\* time passes
Tick ==
    /\ now < MaxTime
    /\ now' = now + 1
    /\ UNCHANGED <<pool, impl, sysVars, dbVars, apiVars, orchVars, loopVars, cb, cbLog,
                   allowed, retry,
                   pureVars>>

InitBreaker ==
    /\ pool = S2Pool
    /\ impl = "mock"
    /\ InitDB
    /\ InitSys
    /\ InitApiIdle
    /\ InitScanner
    /\ InitChainIdle
    /\ \E th \in Thresholds : cb = NewCircuitBreaker(th, ResetAfter)
    /\ now = 0
    /\ cbLog = <<>>
    /\ allowed = TRUE
    /\ retry = NoRetry
    /\ InitPureIdle

NextBreaker ==
    \/ CallAllow
    \/ CallRecordSuccess
    \/ CallRecordFailure
    \/ Tick

SpecBreaker == InitBreaker /\ [][NextBreaker]_vars

(***************************************************************************)
(* retry.Do and retry.DoWithResult (SpecRetry).  The two functions have    *)
(* the same loop; DoWithResult also hands back the value of the last       *)
(* call.  The wrapped function returns nil or one of a few errors at each  *)
(* invocation.  A message is a sequence of fragments, and it contains a    *)
(* pattern when one of its fragments, lower-cased, is the pattern.         *)
(***************************************************************************)
MaxAttemptsBound == 3

\* the lower-case form of the fragments that have upper-case letters
LowerFragment(f) ==
    CASE f = "Timeout" -> "timeout"
      [] f = "EOF" -> "eof"
      [] f = "Invalid Input" -> "invalid input"
      [] OTHER -> f

retryablePatterns ==
    {"timeout", "connection refused", "connection reset", "eof",
     "temporary failure", "too many requests", "rate limit", "429", "503",
     "502", "504", "busy", "unavailable"}

\* retry.IsRetryable
IsRetryable(err) ==
    /\ err # Nil
    /\ \E i \in 1..Len(err.msg) : LowerFragment(err.msg[i]) \in retryablePatterns

\* what the wrapped function may return: nil, two distinct errors with the
\* same non-retryable message, a retryable error, an unexpected EOF
FnErrors ==
    {Nil,
     Err(1, <<"Invalid Input">>),
     Err(2, <<"Invalid Input">>),
     Err(3, <<"request ", "Timeout">>),
     Err(4, <<"unexpected ", "EOF">>)}

\* ctx.Err()
CtxErr == Err(9, <<"context canceled">>)

\* the configurations: MaxAttempts 0..3; a base delay of 0, of 8 or of 40
\* units, the last above the cap and doubling past the largest Duration
RetryConfigs ==
    [MaxAttempts : 0..MaxAttemptsBound, BaseDelay : {0, 8, 40}, MaxDelay : {16}]

Pow2(n) == IF n = 0 THEN 1 ELSE IF n = 1 THEN 2 ELSE IF n = 2 THEN 4 ELSE 8

Min(a, b) == IF a < b THEN a ELSE b

\* time.Duration is an int64, scaled: the values -64..63
DurationMod == 128

\* the product of two Durations wraps around
WrapDuration(x) ==
    IF x % DurationMod >= DurationMod \div 2
    THEN (x % DurationMod) - DurationMod
    ELSE x % DurationMod

\* the backoff before attempt + 1 without the cap
DelayUncapped(r) ==
    WrapDuration(r.cfg.BaseDelay * Pow2(r.attempt))

\* the backoff before attempt + 1, without jitter
Delay(r) ==
    LET delay == WrapDuration(r.cfg.BaseDelay * Pow2(r.attempt))
    IN IF delay > r.cfg.MaxDelay THEN r.cfg.MaxDelay ELSE delay

\* the loop body after fn returned err, retrying every error
AfterCallRetryAll(r, err) ==
    LET c == [r EXCEPT !.calls = Append(@, err)]
    IN IF err = Nil THEN [c EXCEPT !.pc = "done", !.ret = Nil]
       ELSE IF r.attempt = r.cfg.MaxAttempts - 1
            THEN [c EXCEPT !.pc = "done", !.lastErr = err, !.ret = err]
       ELSE IF Delay(r) \div 4 <= 0
            THEN [c EXCEPT !.pc = "panic", !.lastErr = err]
       ELSE [c EXCEPT !.pc = "wait", !.lastErr = err]

\* the loop body after fn returned err: nil and non-retryable errors
\* return, the last attempt leaves the loop, rand.Int63n(n) panics for
\* n <= 0,
\* otherwise the function waits
AfterCall(r, err) ==
    LET c == [r EXCEPT !.calls = Append(@, err)]
    IN IF err = Nil THEN [c EXCEPT !.pc = "done", !.ret = Nil]
       ELSE IF ~IsRetryable(err)
            THEN [c EXCEPT !.pc = "done", !.lastErr = err, !.ret = err]
       ELSE IF r.attempt = r.cfg.MaxAttempts - 1
            THEN [c EXCEPT !.pc = "done", !.lastErr = err, !.ret = err]
       ELSE IF Delay(r) \div 4 <= 0
            THEN [c EXCEPT !.pc = "panic", !.lastErr = err]
       ELSE [c EXCEPT !.pc = "wait", !.lastErr = err]

\* the loop condition: attempt < cfg.MaxAttempts, else return lastErr
RetryLoopTest ==
    /\ retry.pc = "start"
    /\ retry' = IF retry.attempt < retry.cfg.MaxAttempts
                THEN [retry EXCEPT !.pc = "call"]
                ELSE [retry EXCEPT !.pc = "done", !.ret = retry.lastErr]
    /\ UNCHANGED <<pool, impl, sysVars, dbVars, apiVars, orchVars, loopVars, cbVars,
                   pureVars>>

\* fn is invoked and returns err
RetryInvoke(err) ==
    /\ retry.pc = "call"
    /\ retry' = AfterCall(retry, err)
    /\ UNCHANGED <<pool, impl, sysVars, dbVars, apiVars, orchVars, loopVars, cbVars,
                   pureVars>>

\* the select, going on with the next attempt whatever the context
RetryWaitIgnoringCtx ==
    /\ retry.pc = "wait"
    /\ \E jitter \in {0, (Delay(retry) \div 4) - 1} :
          retry' = [retry EXCEPT !.pc = "start", !.attempt = @ + 1,
                                 !.waits = @ + 1,
                                 !.slept = @ + Delay(retry) + jitter,
                                 !.delays = Append(@, Delay(retry) + jitter)]
    /\ UNCHANGED <<pool, impl, sysVars, dbVars, apiVars, orchVars, loopVars, cbVars,
                   pureVars>>

\* the select: the timer fires after delay plus jitter, the context not
\* being done by then
RetryWait ==
    /\ retry.pc = "wait"
    /\ retry.ctx = "live"
    /\ \E jitter \in {0, (Delay(retry) \div 4) - 1} :
          retry' = [retry EXCEPT !.pc = "start", !.attempt = @ + 1,
                                 !.waits = @ + 1,
                                 !.slept = @ + Delay(retry) + jitter,
                                 !.delays = Append(@, Delay(retry) + jitter)]
    /\ UNCHANGED <<pool, impl, sysVars, dbVars, apiVars, orchVars, loopVars, cbVars,
                   pureVars>>

\* the caller cancels the context, or its deadline passes
CancelCtx ==
    /\ retry.pc \notin {"done", "panic"}
    /\ retry.ctx = "live"
    /\ retry' = [retry EXCEPT !.ctx = "done"]
    /\ UNCHANGED <<pool, impl, sysVars, dbVars, apiVars, orchVars, loopVars, cbVars,
                   pureVars>>

\* the select: the context is done first
RetryCancelled ==
    /\ retry.pc = "wait"
    /\ retry.ctx = "done"
    /\ retry' = [retry EXCEPT !.pc = "done", !.ret = CtxErr]
    /\ UNCHANGED <<pool, impl, sysVars, dbVars, apiVars, orchVars, loopVars, cbVars,
                   pureVars>>

InitRetry ==
    /\ pool = S2Pool
    /\ impl = "mock"
    /\ InitDB
    /\ InitSys
    /\ InitApiIdle
    /\ InitScanner
    /\ InitChainIdle
    /\ cb = NewCircuitBreaker(ChainThreshold, ResetAfter)
    /\ now = 0
    /\ cbLog = <<>>
    /\ allowed = TRUE
    /\ \E fn \in {"Do", "DoWithResult"}, cfg \in RetryConfigs :
          retry = RetryCall(fn, cfg)
    /\ InitPureIdle

NextRetry ==
    \/ RetryLoopTest
    \/ \E err \in FnErrors : RetryInvoke(err)
    \/ RetryWait
    \/ CancelCtx
    \/ RetryCancelled

SpecRetry == InitRetry /\ [][NextRetry]_vars

(***************************************************************************)
(* The recovery functions applied to generated inputs (SpecRecovery).  The *)
(* initial state draws the inputs as the generators of the property tests  *)
(* do; each action is one call of a function, or the chain of three calls. *)
(***************************************************************************)
\* a message hash is 32 bytes read as an unsigned integer: it is not reduced
\* mod n, and there are more hashes than scalars (2^256 > n)
HashMod == 16

\* genMessageHash
Hashes == 0..(HashMod - 1)

\* genPrivateKey, genNonce: a scalar of (0, n)
Scalars == 1..(secp256k1N - 1)

\* the hashes drawn for the chain of three calls: two of them are congruent
\* mod n
ChainHashes == {0, 3, secp256k1N + 3, HashMod - 1}

\* the second nonce of a pair of signatures: the same, its negation, another
SecondNonces(k) == {k, secp256k1N - k, (k % (secp256k1N - 1)) + 1}

\* big integers handed to RecoverFromSignatures by a caller that did not
\* sign: any r and s, reduced or not, zero included
RawScalars == 0..secp256k1N

\* signWithNonce: (r, s) of hash z under key d with nonce k
Sign(d, z, k) == [r |-> Rx(k), s |-> SignS(d, z, k)]

\* the inputs of one run: what the generators drew.  A signer discards a
\* signature whose s is zero, so no such signature is among the inputs
RecoveryInputs ==
    {in \in [kind : {"sigs"}, d : Scalars, k1 : Scalars, k2 : Scalars,
             z1 : Hashes, z2 : Hashes] :
        /\ in.k2 \in SecondNonces(in.k1)
        /\ SignS(in.d, in.z1, in.k1) # 0
        /\ SignS(in.d, in.z2, in.k2) # 0}
    \cup
    [kind : {"any"}, z1 : {1, secp256k1N + 1}, z2 : {1, 2},
     r1 : RawScalars, s1 : RawScalars, r2 : RawScalars, s2 : RawScalars]
    \cup
    {in \in [kind : {"one"}, d : Scalars, k : Scalars, z : Hashes] :
        SignS(in.d, in.z, in.k) # 0}
    \cup
    {in \in [kind : {"chain"}, dA : Scalars, dB : Scalars, k : Scalars,
             zA1 : ChainHashes, zA2 : ChainHashes, zB : ChainHashes] :
        /\ in.zA1 # in.zA2
        /\ SignS(in.dA, in.zA1, in.k) # 0
        /\ SignS(in.dA, in.zA2, in.k) # 0
        /\ SignS(in.dB, in.zB, in.k) # 0}

Called(fn, args, out) == [fn |-> fn, in |-> calc.in, args |-> args, out |-> out]

\* RecoverFromSignatures on two signatures of one key, or on any six numbers
CallRecoverFromSignatures ==
    /\ calc.fn = "none"
    /\ calc.in.kind \in {"sigs", "any"}
    /\ LET in == calc.in
           args == IF in.kind = "sigs"
                   THEN <<in.z1, Sign(in.d, in.z1, in.k1).r,
                          Sign(in.d, in.z1, in.k1).s,
                          in.z2, Sign(in.d, in.z2, in.k2).r,
                          Sign(in.d, in.z2, in.k2).s>>
                   ELSE <<in.z1, in.r1, in.s1, in.z2, in.r2, in.s2>>
       IN calc' = Called("RecoverFromSignatures", args,
                         RecoverFromSignatures(args[1], args[2], args[3],
                                               args[4], args[5], args[6]))
    /\ UNCHANGED <<pool, impl, sysVars, dbVars, apiVars, orchVars, loopVars, cbVars,
                   retry, linsys>>

\* DeriveNonce on a signature and the key that made it
CallDeriveNonce ==
    /\ calc.fn = "none"
    /\ calc.in.kind = "one"
    /\ LET in == calc.in
           sig == Sign(in.d, in.z, in.k)
       IN calc' = Called("DeriveNonce", <<in.z, sig.r, sig.s, HexEncode(in.d)>>,
                         DeriveNonce(in.z, sig.r, sig.s, HexEncode(in.d)))
    /\ UNCHANGED <<pool, impl, sysVars, dbVars, apiVars, orchVars, loopVars, cbVars,
                   retry, linsys>>

\* RecoverWithKnownNonce on a signature and the nonce that made it
CallRecoverWithKnownNonce ==
    /\ calc.fn = "none"
    /\ calc.in.kind = "one"
    /\ LET in == calc.in
           sig == Sign(in.d, in.z, in.k)
       IN calc' = Called("RecoverWithKnownNonce",
                         <<in.z, sig.r, sig.s, HexEncode(in.k)>>,
                         RecoverWithKnownNonce(in.z, sig.r, sig.s,
                                               HexEncode(in.k)))
    /\ UNCHANGED <<pool, impl, sysVars, dbVars, apiVars, orchVars, loopVars, cbVars,
                   retry, linsys>>

\* the chain: recover key A from its two signatures, derive the nonce from
\* A's first signature, recover key B from its one signature
CrossKeyChain(in) ==
    LET a1 == Sign(in.dA, in.zA1, in.k)
        a2 == Sign(in.dA, in.zA2, in.k)
        b == Sign(in.dB, in.zB, in.k)
        recA == RecoverFromSignatures(in.zA1, a1.r, a1.s, in.zA2, a1.r, a2.s)
    IN IF recA.err THEN [step |-> 1, privA |-> recA]
       ELSE LET derivedK == DeriveNonce(in.zA1, a1.r, a1.s, recA.key)
                recB == RecoverWithKnownNonce(in.zB, b.r, b.s, derivedK)
            IN [step |-> 3, privA |-> recA, k |-> derivedK, privB |-> recB]

CallCrossKey ==
    /\ calc.fn = "none"
    /\ calc.in.kind = "chain"
    /\ calc' = Called("CrossKey", <<>>, CrossKeyChain(calc.in))
    /\ UNCHANGED <<pool, impl, sysVars, dbVars, apiVars, orchVars, loopVars, cbVars,
                   retry, linsys>>

InitRecovery ==
    /\ pool = S2Pool
    /\ impl = "mock"
    /\ InitDB
    /\ InitSys
    /\ InitApiIdle
    /\ InitScanner
    /\ InitChainIdle
    /\ cb = NewCircuitBreaker(ChainThreshold, ResetAfter)
    /\ now = 0
    /\ cbLog = <<>>
    /\ allowed = TRUE
    /\ retry = NoRetry
    /\ \E in \in RecoveryInputs :
          calc = [fn |-> "none", in |-> in, args |-> <<>>, out |-> <<>>]
    /\ linsys = [op |-> "none"]

NextRecovery ==
    \/ CallRecoverFromSignatures
    \/ CallDeriveNonce
    \/ CallRecoverWithKnownNonce
    \/ CallCrossKey

SpecRecovery == InitRecovery /\ [][NextRecovery]_vars

(***************************************************************************)
(* The linear-system solver over Z/nZ (SpecLinSys): a system is built with *)
(* AddVariable and AddEquation, then asked CanSolve or Solve.              *)
(***************************************************************************)
MaxVars == 2      \* variables added to one system
MaxEqs == 2       \* equations added to one system

\* the modulus the system is constructed with: a small prime
LinMod == 5

\* the coefficients and constants a caller passes: zero, one, and numbers
\* that are reduced on entry
CoefInputs == {0, 1, LinMod + 2}
ConstInputs == {1, LinMod + 3}

\* NewLinearSystem(n)
NewLinearSystem(n) ==
    [n |-> n, vars |-> 0, eqs |-> <<>>, last |-> "none", out |-> <<>>]

\* the inverse of a mod n, 0 when there is none
FieldInverse(a, n) ==
    IF \E x \in 1..(n - 1) : (a * x) % n = 1
    THEN CHOOSE x \in 1..(n - 1) : (a * x) % n = 1
    ELSE 0

\* a row of the augmented matrix: the coefficients of the variables, then
\* the constant; an index the equation does not name counts as 0
RowOf(eq, V) ==
    [j \in 1..(V + 1) |->
        IF j = V + 1 THEN eq.c
        ELSE IF j <= Len(eq.coeffs) THEN eq.coeffs[j] ELSE 0]

Augmented(ls) == [i \in 1..Len(ls.eqs) |-> RowOf(ls.eqs[i], ls.vars)]

ScaleRow(row, f, n) == [j \in 1..Len(row) |-> (row[j] * f) % n]

SubtractRow(row, prow, f, n) ==
    [j \in 1..Len(row) |-> (row[j] - f * prow[j]) % n]

SwapRows(m, i, j) == [m EXCEPT ![i] = m[j], ![j] = m[i]]

\* the first row at or below the pivot row with a non-zero entry in col
PivotRows(m, col) == {i \in col..Len(m) : m[i][col] # 0}

FirstPivot(m, col) == CHOOSE i \in PivotRows(m, col) :
                          \A j \in PivotRows(m, col) : i <= j

\* an elimination that does not scale the pivot row
RECURSIVE EliminateNoScale(_, _, _, _)
EliminateNoScale(m, col, V, n) ==
    IF col > V THEN [err |-> FALSE, m |-> m]
    ELSE IF PivotRows(m, col) = {} THEN [err |-> TRUE, msg |-> "Singular"]
    ELSE LET swapped == SwapRows(m, col, FirstPivot(m, col))
             below == [i \in 1..Len(m) |->
                          IF i > col
                          THEN SubtractRow(swapped[i], swapped[col],
                                           swapped[i][col], n)
                          ELSE swapped[i]]
         IN EliminateNoScale(below, col + 1, V, n)

\* forward elimination: for each column find the pivot, swap it up, scale
\* the pivot row by the inverse of the pivot, eliminate below
RECURSIVE Eliminate(_, _, _, _)
Eliminate(m, col, V, n) ==
    IF col > V THEN [err |-> FALSE, m |-> m]
    ELSE IF PivotRows(m, col) = {} THEN [err |-> TRUE, msg |-> "Singular"]
    ELSE LET swapped == SwapRows(m, col, FirstPivot(m, col))
             inv == FieldInverse(swapped[col][col], n)
         IN IF inv = 0 THEN [err |-> TRUE, msg |-> "NonInvertiblePivot"]
            ELSE LET scaled == [swapped EXCEPT ![col] = ScaleRow(@, inv, n)]
                     below == [i \in 1..Len(m) |->
                                  IF i > col
                                  THEN SubtractRow(scaled[i], scaled[col],
                                                   scaled[i][col], n)
                                  ELSE scaled[i]]
                 IN Eliminate(below, col + 1, V, n)

\* the sum of row[j] * x[j] over the columns j from..V
RECURSIVE RowSum(_, _, _, _)
RowSum(row, x, from, V) ==
    IF from > V THEN 0 ELSE row[from] * x[from] + RowSum(row, x, from + 1, V)

\* back-substitution from the last variable to the first
RECURSIVE BackSubstitute(_, _, _, _, _)
BackSubstitute(m, i, x, V, n) ==
    IF i < 1 THEN x
    ELSE BackSubstitute(m, i - 1,
            [x EXCEPT ![i] = (m[i][V + 1] - RowSum(m[i], x, i + 1, V)) % n],
            V, n)

\* LinearSystem.CanSolve
CanSolve(ls) == Len(ls.eqs) >= ls.vars

\* a Solve that does not test the number of equations first
SolveUnguarded(ls) ==
    LET V == IF Len(ls.eqs) < ls.vars THEN Len(ls.eqs) ELSE ls.vars
        e == Eliminate(Augmented(ls), 1, V, ls.n)
    IN IF e.err THEN e
       ELSE [err |-> FALSE,
             values |-> BackSubstitute(e.m, V, [j \in 1..ls.vars |-> 0],
                                       V, ls.n)]

\* LinearSystem.Solve: the value of every variable, by index
Solve(ls) ==
    IF Len(ls.eqs) < ls.vars THEN [err |-> TRUE, msg |-> "Underdetermined"]
    ELSE LET e == Eliminate(Augmented(ls), 1, ls.vars, ls.n)
         IN IF e.err THEN e
            ELSE [err |-> FALSE,
                  values |-> BackSubstitute(e.m, ls.vars,
                                            [j \in 1..ls.vars |-> 0],
                                            ls.vars, ls.n)]

\* LinearSystem.AddVariable: the matrix is dense, the equations added so
\* far get a zero in the new column
AddVariable ==
    /\ "n" \in DOMAIN linsys
    /\ linsys.vars < MaxVars
    /\ linsys' = [linsys EXCEPT
          !.vars = @ + 1,
          !.eqs = [i \in 1..Len(@) |->
                      [@[i] EXCEPT !.coeffs = Append(@, 0)]],
          !.last = "none", !.out = <<>>]
    /\ UNCHANGED <<pool, impl, sysVars, dbVars, apiVars, orchVars, loopVars, cbVars,
                   retry, calc>>

\* LinearSystem.AddEquation: coefficients and constant reduced on entry
AddEquation ==
    /\ "n" \in DOMAIN linsys
    /\ Len(linsys.eqs) < MaxEqs
    /\ \E coeffs \in [1..linsys.vars -> CoefInputs], c \in ConstInputs :
          linsys' = [linsys EXCEPT
              !.eqs = Append(@, [coeffs |-> [j \in 1..linsys.vars |->
                                                coeffs[j] % linsys.n],
                                 c |-> c % linsys.n]),
              !.last = "none", !.out = <<>>]
    /\ UNCHANGED <<pool, impl, sysVars, dbVars, apiVars, orchVars, loopVars, cbVars,
                   retry, calc>>

CallCanSolve ==
    /\ "n" \in DOMAIN linsys
    /\ linsys' = [linsys EXCEPT !.last = "CanSolve", !.out = CanSolve(linsys)]
    /\ UNCHANGED <<pool, impl, sysVars, dbVars, apiVars, orchVars, loopVars, cbVars,
                   retry, calc>>

CallSolve ==
    /\ "n" \in DOMAIN linsys
    /\ linsys' = [linsys EXCEPT !.last = "Solve", !.out = Solve(linsys)]
    /\ UNCHANGED <<pool, impl, sysVars, dbVars, apiVars, orchVars, loopVars, cbVars,
                   retry, calc>>

InitLinSys ==
    /\ pool = S2Pool
    /\ impl = "mock"
    /\ InitDB
    /\ InitSys
    /\ InitApiIdle
    /\ InitScanner
    /\ InitChainIdle
    /\ cb = NewCircuitBreaker(ChainThreshold, ResetAfter)
    /\ now = 0
    /\ cbLog = <<>>
    /\ allowed = TRUE
    /\ retry = NoRetry
    /\ calc = [fn |-> "none"]
    /\ linsys = NewLinearSystem(LinMod)

NextLinSys ==
    \/ AddVariable
    \/ AddEquation
    \/ CallCanSolve
    \/ CallSolve

SpecLinSys == InitLinSys /\ [][NextLinSys]_vars

(***************************************************************************)
(* The R-index and the collision log (SpecIndex).                          *)
(***************************************************************************)
IsWitness(t) ==
    /\ TxR(t) \in DOMAIN rValues
    /\ rValues[TxR(t)].TxHash = TxHashOf(t)

InCollisionLog(t) ==
    \E x \in collisions : x.RValue = TxR(t) /\ x.TxHash = TxHashOf(t)

\* C1: after any sequence of BatchCheckAndInsertRValues calls every R that
\* was passed in has a witness row in the R-index, and every other (r,
\* tx_hash) occurrence of that R is a row of the collision log.
C1_EveryOccurrenceRecorded ==
    \A t \in passed :
        /\ TxR(t) \in DOMAIN rValues
        /\ IsWitness(t) \/ InCollisionLog(t)

CheckRets == {c \in Callers : callers[c].ret.kind = "check"}

\* C2: of the CheckAndInsertRValue calls that present the same R with
\* different tx hashes, in every interleaving exactly one becomes the
\* witness, every other one is told of a collision against that witness,
\* and no two of them are both told "no collision".
C2_DbArbitratesWitness ==
    /\ \A c \in CheckRets :
          LET t == callers[c].tx
              ret == callers[c].ret
          IN /\ TxR(t) \in DOMAIN rValues
             /\ ret.isCollision => ret.existing = rValues[TxR(t)]
             /\ ~ret.isCollision => IsWitness(t)
    /\ \A c1, c2 \in CheckRets :
          (/\ c1 # c2
           /\ TxR(callers[c1].tx) = TxR(callers[c2].tx)
           /\ TxHashOf(callers[c1].tx) # TxHashOf(callers[c2].tx))
          => callers[c1].ret.isCollision \/ callers[c2].ret.isCollision

\* whether the last call reported a collision for r against witness w
ReportedAgainst(r, w) ==
    CASE lastCall.ret.kind = "check" ->
            lastCall.ret.isCollision /\ lastCall.ret.existing = w
      [] lastCall.ret.kind = "batch" ->
            \E n \in 1..Len(lastCall.ret.out) :
                /\ lastCall.ret.out[n].RValue = r
                /\ lastCall.ret.out[n].FirstTxRef = w
      [] OTHER -> FALSE

\* C3: (MockDB) the witness of an R is that of its first insertion and no
\* later call changes or removes it; a call that presents the R with a tx
\* hash other than the witness's reports a collision whose FirstTxRef is
\* the witness; every R of a call is in the index after the call.
C3_WitnessIsFirstAndReported ==
    impl = "mock" =>
    /\ \A r \in DOMAIN lastCall.before :
          r \in DOMAIN rValues /\ rValues[r] = lastCall.before[r]
    /\ lastCall.op \in {"check", "batch"} =>
          \A i \in 1..Len(lastCall.txs) :
              LET t == lastCall.txs[i]
                  r == TxR(t)
              IN /\ r \in DOMAIN rValues
                 /\ (/\ r \in DOMAIN lastCall.before
                     /\ lastCall.before[r].TxHash # TxHashOf(t))
                    => ReportedAgainst(r, lastCall.before[r])

\* C4: replaying the batch that was just applied leaves the R-index (and
\* the collision log, which the batch never writes) as it is, and a pair
\* (r, tx_hash) that is recorded as the witness is a no-op: it changes
\* nothing and is not returned as a collision.
C4_BatchReplayIsNoOp ==
    /\ lastCall.op = "batch" =>
          MockBatch(rValues, BatchInputs(lastCall.txs)).rValues = rValues
    /\ \A t \in DOMAIN pool :
          IsWitness(t) =>
              MockBatch(rValues, <<TxInput(t)>>) = [rValues |-> rValues, out |-> <<>>]

\* C4's case: the batch just applied held a pair that is now the witness
\* and a pair that collided with an older witness.
C4_Witness ==
    /\ lastCall.op = "batch"
    /\ \E i, j \in 1..Len(lastCall.txs) :
          /\ IsWitness(lastCall.txs[i])
          /\ TxR(lastCall.txs[i]) \notin DOMAIN lastCall.before
          /\ TxR(lastCall.txs[j]) \in DOMAIN lastCall.before
          /\ Len(lastCall.ret.out) > 0

\* C5: when an R not yet in the index appears several times in one batch,
\* the first entry becomes the witness and every later entry of the batch
\* with that R and another tx hash is returned as a collision against it.
C5_BatchInternalDuplicatesCollide ==
    lastCall.op = "batch" =>
    \A i, j \in 1..Len(lastCall.txs) :
        LET ti == lastCall.txs[i]
            tj == lastCall.txs[j]
        IN (/\ i < j
            /\ TxR(ti) = TxR(tj)
            /\ TxR(ti) \notin DOMAIN lastCall.before
            /\ \A h \in 1..(i - 1) : TxR(lastCall.txs[h]) # TxR(ti)
            /\ TxHashOf(tj) # TxHashOf(ti))
           => /\ IsWitness(ti)
              /\ \E n \in 1..Len(lastCall.ret.out) :
                    /\ lastCall.ret.out[n].TxHash = TxHashOf(tj)
                    /\ lastCall.ret.out[n].FirstTxRef =
                           TxRef(TxHashOf(ti), TxChain(ti))

(***************************************************************************)
(* Recovered keys (SpecKeys).                                              *)
(***************************************************************************)
\* C6: SaveRecoveredKey is an idempotent upsert keyed on (address,
\* chain_id), for MockDB and for DB alike: the store never holds two rows
\* with the same (address, chain_id), and saving the key that was just saved
\* once more leaves the rows as they are and returns the same id.
C6_SaveKeyIsIdempotentUpsert ==
    /\ \A i, j \in 1..Len(keys) :
          (EqualFold(keys[i].Address, keys[j].Address) /\ keys[i].ChainID = keys[j].ChainID)
          => i = j
    /\ lastCall.op = "savekey" =>
          /\ SaveRecoveredKeyOp(impl, keys, lastCall.key).keys = keys
          /\ SaveRecoveredKeyOp(impl, keys, lastCall.key).id = lastCall.ret.id

\* C6 restricted to the PostgreSQL adapter, where it holds
C6_LiveSaveKeyIsIdempotentUpsert ==
    impl = "live" => C6_SaveKeyIsIdempotentUpsert


(***************************************************************************)
(* The collision workers (SpecOrch).                                       *)
(***************************************************************************)
\* a recovered key for (address, chain_id) is present in persistence
KeyPresent(address, chainID) ==
    \E i \in 1..Len(keys) :
        EqualFold(keys[i].Address, address) /\ keys[i].ChainID = chainID

\* worker w takes the step
Steps(w) == workers'[w] # workers[w] \/ handled' # handled

\* C7: once a recovered key for (address, chain_id) is present, no worker
\* runs same-key recovery for it (the handler returns "already recovered")
\* and no worker saves a key for it again, whatever the interleaving of the
\* workers and the letter case of the sender address.
C7_PresentKeyNeverRederived ==
    [][\A w \in Workers :
          /\ (/\ workers[w].pc = "sk_check"
              /\ workers'[w].pc # "sk_check"
              /\ KeyPresent(workers[w].tx1.From, workers[w].tx1.ChainID))
             => [tx |-> workers[w].ev.NewTxHash, outcome |-> "already"] \in handled'
          /\ (/\ workers[w].pc = "sk_save"
              /\ workers'[w].pc # "sk_save")
             => ~KeyPresent(workers[w].tx1.From, workers[w].tx1.ChainID)
          /\ (/\ workers[w].pc = "ck_save"
              /\ workers'[w].pc # "ck_save")
             => ~KeyPresent(workers[w].tx2.From, workers[w].tx2.ChainID)]_vars

\* the part of C7 that the check-then-save race alone breaks: with the
\* PostgreSQL adapter, whose lookup ignores case, a key is still saved again
C7_LivePresentKeyNeverSavedAgain ==
    [][impl = "live" =>
          \A w \in Workers :
              (workers[w].pc = "sk_save" /\ workers'[w].pc # "sk_save")
              => ~KeyPresent(workers[w].tx1.From, workers[w].tx1.ChainID)]_vars

\* the private key of a row belongs to the row's address
RowVerifies(row) ==
    /\ ToECDSAOk(HexDecode(row.PrivateKey))
    /\ EqualFold(AddressHex(HexDecode(row.PrivateKey)), row.Address)

FailedOutcomes == {"recover_err", "verify_failed"}

Range(f) == {f[x] : x \in DOMAIN f}

\* C8: every recovered-key row a handler persists has a private key that
\* verifies against the row's address; an event whose recovery returned an
\* error or failed verification has no key row, and the step in which its
\* handler gives up writes neither a key nor a nonce.
C8_OnlyVerifiedKeysPersisted ==
    /\ [](\A i \in 1..Len(keys) : RowVerifies(keys[i]))
    /\ [](\A h \in handled :
             h.outcome \in FailedOutcomes =>
                 \A i \in 1..Len(keys) : h.tx \notin Range(keys[i].TxHashes))
    /\ [][(\E h \in handled' \ handled : h.outcome \in FailedOutcomes)
             => keys' = keys /\ nonces' = nonces]_vars

\* C8's case: one event ended in a failed verification, another in a
\* recovery error or a saved key, and a key row is persisted
C8_Witness ==
    /\ \E h \in handled : h.outcome = "verify_failed"
    /\ \E h \in handled : h.outcome \in {"saved", "saved_nonce"}
    /\ keys # <<>>

\* the handlers have nothing left to do and nothing was lost on the way
AllHandled ==
    /\ scanned = DOMAIN pool
    /\ collisionChan = <<>>
    /\ \A w \in Workers : workers[w].pc = "idle"
    /\ dropped = {}
    /\ \A h \in handled : h.outcome \notin {"fetch_failed", "discarded"}

\* a verified key of signer d is persisted
KeyPersistedFor(d) ==
    \E i \in 1..Len(keys) :
        /\ EqualFold(keys[i].Address, AddressHex(d))
        /\ RowVerifies(keys[i])

\* C10: in the cross-key scenario (A signs twice and B once with the same
\* nonce), for every ingestion order, once the three transactions are
\* ingested and their events handled, A and B have a recovered key and a
\* recovered nonce for r is persisted.
C10_CrossKeyOrderIndependent ==
    (pool = S2Pool /\ AllHandled) =>
        /\ KeyPersistedFor(2)
        /\ KeyPersistedFor(5)
        /\ 9 \in DOMAIN nonces

\* C10's outcome reached in no ingestion order at all with MockDB, and with
\* the PostgreSQL adapter not when B's transaction is ingested first
C10_NeverWithMock ==
    (pool = S2Pool /\ AllHandled /\ impl = "mock") => ~KeyPersistedFor(5)

C10_LiveNotWhenBFirst ==
    (pool = S2Pool /\ AllHandled /\ impl = "live"
        /\ rValues[9].TxHash = TxHashOf(3)) => ~KeyPersistedFor(2)

(***************************************************************************)
(* The same-key scenario (SpecS1).                                         *)
(***************************************************************************)
\* the event was lost: dropped at the channel, discarded because recovery
\* was disabled, or given up because an RPC fetch failed
EventLost ==
    \/ dropped # {}
    \/ \E h \in handled : h.outcome \in {"fetch_failed", "discarded"}

PendingHolds(cs, wk) ==
    \E i \in 1..Len(cs) :
        /\ cs[i].RValues = <<wk.ev.RValue>>
        /\ cs[i].TxHashes = <<wk.tx1.Hash, wk.tx2.Hash>>
        /\ EqualFold(cs[i].Addresses[1], wk.tx1.From)
        /\ EqualFold(cs[i].Addresses[2], wk.tx2.From)
        /\ cs[i].ChainIDs = <<wk.tx1.ChainID, wk.tx2.ChainID>>
        /\ cs[i].Equations = 2
        /\ cs[i].Unknowns = 3

\* C11: an event whose two transactions have different senders (compared
\* without case) and for whose r no nonce is stored is handled by saving a
\* pending component that holds the r, both tx hashes, both addresses and
\* both chain ids with equations = 2 and unknowns = 3; the handler persists
\* no recovered key.
C11_CrossKeyUnknownNonceSavedPending ==
    [][\A w \in Workers :
          /\ (/\ workers[w].pc = "fetch"
              /\ workers'[w].pc \notin {"fetch", "idle"}
              /\ ~EqualFold(workers'[w].tx1.From, workers'[w].tx2.From))
             => workers'[w].pc = "ck_nonce"
          /\ (/\ workers[w].pc = "ck_nonce"
              /\ workers'[w].pc # "ck_nonce"
              /\ workers[w].ev.RValue \notin DOMAIN nonces)
             => workers'[w].pc = "ck_pending" /\ keys' = keys
          /\ (/\ workers[w].pc = "ck_pending"
              /\ workers'[w].pc # "ck_pending")
             => /\ PendingHolds(comps', workers[w])
                /\ keys' = keys
                /\ [tx |-> workers[w].ev.NewTxHash, outcome |-> "pending"] \in handled']_vars

\* C11 for MockDB alone, where it holds
C11_MockCrossKeyUnknownNonceSavedPending ==
    [][impl = "mock" =>
          \A w \in Workers :
              (workers[w].pc = "ck_pending" /\ workers'[w].pc # "ck_pending")
              => PendingHolds(comps', workers[w]) /\ keys' = keys]_vars

(***************************************************************************)
(* The cyclic scenario (SpecS4).                                           *)
(***************************************************************************)
\* a nonce row for the r of transaction t holds the nonce t was signed with
NoncePersistedFor(t) ==
    /\ TxR(t) \in DOMAIN nonces
    /\ HexDecode(nonces[TxR(t)].KValue) = pool[t].k

\* C12: pending components are re-examined and solved, so that in the
\* cyclic scenario, once the six transactions are ingested and their events
\* handled, the three keys and the three nonces are persisted and no
\* pending component remains.
C12_CyclicScenarioSolved ==
    AllHandled =>
        /\ comps = <<>>
        /\ \A d \in {2, 5, 3} : KeyPersistedFor(d)
        /\ \A t \in {11, 13, 15} : NoncePersistedFor(t)

\* what the scanner does instead: whatever the order, the three events end
\* as pending components and nothing is recovered
C12_CyclicScenarioStaysPending ==
    AllHandled =>
        /\ keys = <<>>
        /\ nonces = EmptyMap
        /\ Len(comps) = 3
        /\ \A i \in 1..Len(comps) : comps[i].Equations = 2 /\ comps[i].Unknowns = 3

\* C13: in the replay scenario, once the first ingestion has persisted the
\* sender's key, every later quiescent state -- in particular the one after
\* the two blocks were ingested a second time -- has the counts of the
\* first ingestion: one R-index row, the same collision rows, one recovered
\* key (the sender's), no nonce and no pending component; with MockDB as
\* with the live DB.
C13_ReplayLeavesStateUnchanged ==
    (FirstPassDone /\ KeyPersistedFor(pool[1].d)) =>
        /\ DOMAIN rValues = {TxR(1)}
        /\ Cardinality(collisions) = (IF impl = "live" THEN 1 ELSE 0)
        /\ Len(keys) = 1
        /\ keys[1].PrivateKey = HexEncode(pool[1].d)
        /\ nonces = EmptyMap
        /\ comps = <<>>

\* C13 holds with the live DB
C13_LiveReplayLeavesStateUnchanged ==
    impl = "live" => C13_ReplayLeavesStateUnchanged

\* C13's case: both blocks were ingested twice and every event was handled
C13_Replayed ==
    /\ FirstPassDone
    /\ rescanned = DOMAIN pool
    /\ KeyPersistedFor(pool[1].d)

\* the sender of t, lower-cased, is a system address
FromSystem(t) == ToLower(TxFrom(t)) \in SystemAddresses

\* a collision event about transaction t was published, dropped or handled
EventAbout(t) ==
    \/ \E i \in 1..Len(collisionChan) : collisionChan[i].NewTxHash = TxHashOf(t)
    \/ \E e \in dropped : e.NewTxHash = TxHashOf(t)
    \/ \E w \in Workers : workers[w].ev # NoEvent /\ workers[w].ev.NewTxHash = TxHashOf(t)
    \/ \E h \in handled : h.tx = TxHashOf(t)

\* C14: after any sequence of scanned blocks, a transaction whose sender,
\* lower-cased, is a system address is the witness of no R-index row, is in
\* no collision row and is the subject of no collision event: it never
\* reached the batch insert.
C14_SystemTxNeverIndexed ==
    \A t \in DOMAIN pool :
        FromSystem(t) =>
            /\ ~IsWitness(t)
            /\ ~InCollisionLog(t)
            /\ ~EventAbout(t)

\* C14's case: both system transactions were scanned, the first of them
\* before any other transaction with its r, and key A's transactions were
\* indexed and collided
C14_Witness ==
    /\ scanned = DOMAIN pool
    /\ \E t \in DOMAIN pool : FromSystem(t)
    /\ IsWitness(2)
    /\ EventAbout(1)

Active(l) == loops[l].pc \in {"latest", "scan"}

\* C16: at most one scan loop of the chain is fetching and processing
\* blocks, not counting a loop that finishes the iteration it began before
\* its stop channel was closed.
C16_OneScannerTaskPerChain ==
    Cardinality({l \in Loops :
                    /\ Active(l)
                    /\ loops[l].gen \notin closed \/ loops[l].checked # loops[l].gen})
        <= 1

\* a loop passes a select on a channel that is not its own only after its
\* own channel was closed and StartChain replaced the field
C16_OnlyAfterRestart ==
    \A l \in Loops :
        (Active(l) /\ loops[l].checked # loops[l].gen) =>
            /\ loops[l].gen \in closed
            /\ stopChan # loops[l].gen

\* C17: a scan loop whose stop channel has been closed ends at its next
\* select: it goes to no further getLatestBlock or scanBlock.
C17_StopObservedAtNextIteration ==
    [][\A l \in Loops :
          (loops[l].pc = "top" /\ loops[l].gen \in closed /\ loops'[l] # loops[l]) =>
              loops'[l].pc = "done"]_vars

\* C17 holds while no StartChain has replaced the stop channel
C17_StopObservedUnlessRestarted ==
    [][\A l \in Loops :
          (/\ loops[l].pc = "top"
           /\ loops[l].gen \in closed
           /\ stopChan = loops[l].gen
           /\ loops'[l] # loops[l]) =>
              loops'[l].pc = "done"]_vars

(***************************************************************************)
(* The collision channel (SpecOrch).                                       *)
(***************************************************************************)
\* C18: the collision channel never holds more than its capacity; scanBlock
\* can run on every next block whatever the channel holds, and a step that
\* drops an event leaves the channel full, loses no queued event and
\* completes the block.
C18_PublishNeverBlocks ==
    /\ [](Len(collisionChan) <= ChanCap)
    /\ [](\A b \in Blocks : ENABLED ScanBlock(b))
    /\ [][dropped' # dropped =>
              /\ Len(collisionChan') = ChanCap
              /\ \A i \in 1..Len(collisionChan) : collisionChan'[i] = collisionChan[i]
              /\ scanned' # scanned
              /\ \A w \in Workers : workers'[w] = workers[w]]_vars

\* C18's case: a block was scanned while the channel was full, its event
\* was dropped and the block counts as scanned
C18_Witness ==
    /\ dropped # {}
    /\ Len(collisionChan) = ChanCap
    /\ \E e \in dropped : \E t \in scanned : e.NewTxHash = TxHashOf(t)

(***************************************************************************)
(* The circuit breaker (SpecBreaker).                                      *)
(***************************************************************************)
\* the failures recorded up to call i with no success in between;
\* resets tells whether an Allow that closed the breaker also ends the run
RECURSIVE FailureRun(_, _)
FailureRun(i, resets) ==
    IF i = 0 THEN 0
    ELSE IF cbLog[i].op = "fail" THEN 1 + FailureRun(i - 1, resets)
    ELSE IF cbLog[i].op = "success" THEN 0
    ELSE IF resets /\ cbLog[i].was /\ ~cbLog[i].open THEN 0
    ELSE FailureRun(i - 1, resets)

\* the time of the last failure recorded before call i
RECURSIVE LastFailureAt(_)
LastFailureAt(i) ==
    IF i = 0 THEN 0
    ELSE IF cbLog[i].op = "fail" THEN cbLog[i].at
    ELSE LastFailureAt(i - 1)

\* C19 as stated: a recorded failure leaves the breaker open exactly when
\* it is at least the threshold-th failure in a row with no success in
\* between, a recorded success closes it, Allow returns true while it is
\* closed, and once it is open Allow returns false.
C19_OpenExactlyAtThreshold ==
    \A i \in 1..Len(cbLog) :
        /\ cbLog[i].op = "fail" =>
               (cbLog[i].open <=> FailureRun(i, FALSE) >= cb.threshold)
        /\ cbLog[i].op = "success" => ~cbLog[i].open
        /\ cbLog[i].op = "allow" => (cbLog[i].ret <=> ~cbLog[i].was)

\* C19 amended: the same, except that an Allow on an open breaker returns
\* false only until resetAfter has passed since the last failure; the first
\* Allow after that closes the breaker, returns true and starts the count
\* of failures again, as a success does.
C19_OpenAtThresholdUntilReset ==
    \A i \in 1..Len(cbLog) :
        /\ cbLog[i].op = "fail" =>
               (cbLog[i].open <=> FailureRun(i, TRUE) >= cb.threshold)
        /\ cbLog[i].op = "success" => ~cbLog[i].open
        /\ cbLog[i].op = "allow" =>
               /\ cbLog[i].ret <=>
                      (~cbLog[i].was \/ cbLog[i].at - LastFailureAt(i - 1) > ResetAfter)
               /\ cbLog[i].open <=> ~cbLog[i].ret

\* C19's case: the chain's breaker (threshold 5) stayed closed through four
\* failures, opened at the fifth and then refused a request
C19_Witness ==
    /\ cb.threshold = ChainThreshold
    /\ Len(cbLog) >= ChainThreshold + 1
    /\ \A i \in 1..ChainThreshold : cbLog[i].op = "fail"
    /\ ~cbLog[ChainThreshold - 1].open
    /\ cbLog[ChainThreshold].open
    /\ cbLog[ChainThreshold + 1].op = "allow"
    /\ ~cbLog[ChainThreshold + 1].ret

(***************************************************************************)
(* retry.Do and retry.DoWithResult (SpecRetry).                            *)
(***************************************************************************)
NonRetryable(err) == err # Nil /\ ~IsRetryable(err)

\* C20: when the wrapped function returns a non-retryable error, Do and
\* DoWithResult have returned that very error value and invoke the function
\* no further; when it does so at the first invocation, the function was
\* invoked exactly once and nothing was waited for.
C20_NonRetryableReturnedAtOnce ==
    /\ \A i \in 1..Len(retry.calls) :
          NonRetryable(retry.calls[i]) =>
              /\ i = Len(retry.calls)
              /\ retry.pc = "done"
              /\ retry.ret = retry.calls[i]
    /\ (retry.calls # <<>> /\ NonRetryable(retry.calls[1])) =>
          /\ Len(retry.calls) = 1
          /\ retry.waits = 0
          /\ retry.slept = 0

\* C20's case: with three attempts allowed, the first invocation returned
\* the second of the two errors that read "Invalid Input", and the call is
\* over with that error
C20_Witness ==
    /\ retry.cfg.MaxAttempts = 3
    /\ retry.calls = <<Err(2, <<"Invalid Input">>)>>
    /\ retry.pc = "done"
    /\ retry.ret.id = 2

\* what C21 says of a call of Do that has returned
DoContract ==
    /\ Len(retry.calls) >= 1
    /\ Len(retry.calls) <= retry.cfg.MaxAttempts
    /\ \A i \in 1..(Len(retry.calls) - 1) : retry.calls[i] # Nil
    /\ retry.ret = Nil <=> \E i \in 1..Len(retry.calls) : retry.calls[i] = Nil
    /\ (/\ Len(retry.calls) = retry.cfg.MaxAttempts
        /\ \A i \in 1..Len(retry.calls) : IsRetryable(retry.calls[i])) =>
           retry.ret = retry.calls[Len(retry.calls)]

C21_DoWithPositiveMaxAttempts ==
    (retry.fn = "Do" /\ retry.pc = "done" /\ retry.cfg.MaxAttempts >= 1) =>
        DoContract

\* three retryable failures in a row end a call with MaxAttempts = 3 with
\* the third error
C21_Exhausted ==
    /\ retry.fn = "Do"
    /\ retry.pc = "done"
    /\ retry.cfg.MaxAttempts = 3
    /\ Len(retry.calls) = 3
    /\ retry.ret = retry.calls[3]
    /\ retry.ret # Nil

(***************************************************************************)
(* The recovery functions (SpecRecovery).                                  *)
(***************************************************************************)
\* RecoverFromSignatures was called on two signatures one key made with one
\* nonce, over two different hashes
SameKeyCall ==
    /\ calc.fn = "RecoverFromSignatures"
    /\ calc.in.kind = "sigs"
    /\ calc.in.k1 = calc.in.k2
    /\ calc.in.z1 # calc.in.z2

\* the call returned the key d: it verifies against the address of d, it is
\* d as a scalar, and it is (s1 k - z1) r^-1 with k = (z1 - z2)(s1 - s2)^-1
ReturnsTheKey ==
    LET z1 == calc.args[1]
        r == calc.args[2]
        s1 == calc.args[3]
        z2 == calc.args[4]
        s2 == calc.args[6]
        k == Mod((z1 - z2) * ModInverse(Mod(s1 - s2)))
    IN /\ ~calc.out.err
       /\ VerifyPrivateKey(calc.out.key, AddressHex(calc.in.d))
       /\ HexDecode(calc.out.key) = calc.in.d
       /\ HexDecode(calc.out.key) = Mod((s1 * k - z1) * ModInverse(r))

\* C22 as stated: for every key d, nonce k and hashes z1 # z2 signed by d
\* with k, RecoverFromSignatures returns the key d.
C22_SameKeyRecovery == SameKeyCall => ReturnsTheKey

\* C22: for every key d, nonce k and hashes z1 # z2 signed by d with k whose
\* s values differ (z1 and z2 are not congruent mod n), RecoverFromSignatures
\* returns a key that verifies against the address of d, equal to d and to
\* (s1 k - z1) r^-1 mod n with k = (z1 - z2)(s1 - s2)^-1.
C22_SameKeyRecoveryDistinctS ==
    (SameKeyCall /\ calc.args[3] # calc.args[6]) => ReturnsTheKey

\* a key recovered from two hashes above and below n
C22_Witness ==
    /\ SameKeyCall
    /\ calc.in.z1 > secp256k1N
    /\ calc.in.z2 < secp256k1N
    /\ ~calc.out.err
    /\ HexDecode(calc.out.key) = calc.in.d

\* C23: for every key d, nonce k and hash z, with (r, s) the signature of z
\* under d with nonce k, DeriveNonce(z, r, s, d) is k as a 32-byte hex
\* string.
C23_DeriveNonceReturnsNonce ==
    calc.fn = "DeriveNonce" =>
        /\ calc.out = HexEncode(calc.in.k)
        /\ HexDecode(calc.out) = calc.in.k

\* the nonce derived from a signature over a hash above n
C23_Witness ==
    /\ calc.fn = "DeriveNonce"
    /\ calc.in.z > secp256k1N
    /\ calc.in.k > 1
    /\ HexDecode(calc.out) = calc.in.k

\* C24: RecoverFromSignatures returns an error and no key whenever
\* r1 # r2, and whenever s1 = s2.
C24_DifferentROrEqualSFails ==
    (/\ calc.fn = "RecoverFromSignatures"
     /\ \/ calc.args[2] # calc.args[5]
        \/ calc.args[3] = calc.args[6]) =>
        /\ calc.out.err
        /\ "key" \notin DOMAIN calc.out

\* two signatures of one key with two nonces whose R values and s values
\* differ: the call failed
C24_Witness ==
    /\ calc.fn = "RecoverFromSignatures"
    /\ calc.in.kind = "sigs"
    /\ calc.args[2] # calc.args[5]
    /\ calc.args[3] # calc.args[6]
    /\ calc.out.err
    /\ calc.out.msg = "R values must match"

\* the chain of three calls ended with the key of B
ChainYieldsKeyB ==
    /\ calc.out.step = 3
    /\ HexDecode(calc.out.privA.key) = calc.in.dA
    /\ HexDecode(calc.out.k) = calc.in.k
    /\ ~calc.out.privB.err
    /\ HexDecode(calc.out.privB.key) = calc.in.dB
    /\ VerifyPrivateKey(calc.out.privB.key, AddressHex(calc.in.dB))

\* RecoverWithKnownNonce on a signature of d with nonce k returned d
KnownNonceYieldsKey ==
    calc.fn = "RecoverWithKnownNonce" =>
        /\ ~calc.out.err
        /\ HexDecode(calc.out.key) = calc.in.d
        /\ VerifyPrivateKey(calc.out.key, AddressHex(calc.in.d))

\* C25 as stated: when key A signed two different messages and key B one,
\* all with nonce k, the chain RecoverFromSignatures, DeriveNonce,
\* RecoverWithKnownNonce yields the key of B; RecoverWithKnownNonce(z, r, s,
\* k) returns d for every signature of z by d with nonce k.
C25_CrossKeyChain ==
    /\ calc.fn = "CrossKey" => ChainYieldsKeyB
    /\ KnownNonceYieldsKey

\* C25: when key A signed with nonce k two messages whose hashes are not
\* congruent mod n (its two s values differ) and key B signed one message
\* with k, the chain yields the key of B; RecoverWithKnownNonce(z, r, s, k)
\* returns d for every signature of z by d with nonce k.
C25_CrossKeyChainDistinctS ==
    /\ (/\ calc.fn = "CrossKey"
        /\ SignS(calc.in.dA, calc.in.zA1, calc.in.k) #
               SignS(calc.in.dA, calc.in.zA2, calc.in.k)) => ChainYieldsKeyB
    /\ KnownNonceYieldsKey

\* the chain recovered the key of B, another key than A's
C25_Witness ==
    /\ calc.fn = "CrossKey"
    /\ calc.in.dA # calc.in.dB
    /\ calc.out.step = 3
    /\ HexDecode(calc.out.privB.key) = calc.in.dB
    /\ HexDecode(calc.out.privA.key) = calc.in.dA

(***************************************************************************)
(* The linear-system solver (SpecLinSys).                                  *)
(***************************************************************************)
Vectors(k) == [1..k -> 0..(linsys.n - 1)]

\* x satisfies equation i of the system as it was added
Satisfies(x, i) ==
    RowSum(RowOf(linsys.eqs[i], linsys.vars), x, 1, linsys.vars) % linsys.n
        = linsys.eqs[i].c

Solutions == {x \in Vectors(linsys.vars) :
                 \A i \in 1..Len(linsys.eqs) : Satisfies(x, i)}

\* the leading k x k block of the coefficients is non-singular: only the
\* zero vector is sent to zero
LeadingMinorNonSingular(k) ==
    \A x \in Vectors(k) :
        (\A i \in 1..k :
            RowSum(RowOf(linsys.eqs[i], linsys.vars), x, 1, k) % linsys.n = 0)
        => \A j \in 1..k : x[j] = 0

Solved == /\ "n" \in DOMAIN linsys
          /\ linsys.last = "Solve"

\* C26: for every consistent system over Z/nZ with at least as many
\* equations as variables and non-singular leading principal minors, Solve
\* returns a value for every variable that satisfies every equation as it
\* was added; for a square system it is the only solution.
C26_SolveSatisfiesEveryEquation ==
    (/\ Solved
     /\ Len(linsys.eqs) >= linsys.vars
     /\ \A k \in 1..linsys.vars : LeadingMinorNonSingular(k)
     /\ Solutions # {}) =>
        /\ ~linsys.out.err
        /\ DOMAIN linsys.out.values = 1..linsys.vars
        /\ linsys.out.values \in Solutions
        /\ Len(linsys.eqs) = linsys.vars => Solutions = {linsys.out.values}

\* a square system of two variables whose first pivot is not 1 and whose
\* second equation names both variables, solved
C26_Witness ==
    /\ Solved
    /\ linsys.vars = 2
    /\ Len(linsys.eqs) = 2
    /\ linsys.eqs[1].coeffs = <<2, 1>>
    /\ linsys.eqs[2].coeffs = <<1, 2>>
    /\ ~linsys.out.err
    /\ Solutions = {linsys.out.values}

\* C27: CanSolve is true exactly when at least as many equations as
\* variables were added, and Solve on a system with fewer equations than
\* variables returns the error Underdetermined and no values.
C27_UnderdeterminedFails ==
    /\ ("n" \in DOMAIN linsys /\ linsys.last = "CanSolve") =>
          (linsys.out <=> Len(linsys.eqs) >= linsys.vars)
    /\ (Solved /\ Len(linsys.eqs) < linsys.vars) =>
          /\ linsys.out.err
          /\ linsys.out.msg = "Underdetermined"
          /\ "values" \notin DOMAIN linsys.out

\* one equation for two variables: Solve failed
C27_Witness ==
    /\ Solved
    /\ linsys.vars = 2
    /\ Len(linsys.eqs) = 1
    /\ linsys.out.err

(***************************************************************************)
(* The filter of scanBlock on transactions whose r is zero (SpecZeroR).    *)
(***************************************************************************)
\* the r of t normalizes to the integer 0
ZeroR(t) == HexToBig(TxRWire(t)) = 0

\* t was handed to BatchCheckAndInsertRValues: the call leaves the R of every
\* transaction it is given in the R-index
HandedToBatch(t) ==
    /\ t \in scanned
    /\ TxR(t) \in DOMAIN rValues

\* C28: no transaction whose R normalizes to the integer 0 ("", "0x0",
\* "0x00", any run of zero digits) is handed to BatchCheckAndInsertRValues.
C28_ZeroRNeverHandedToBatch ==
    \A t \in DOMAIN pool : ZeroR(t) => ~HandedToBatch(t)

(***************************************************************************)
(* Dropped events and the collision log (SpecOrch).                        *)
(***************************************************************************)
\* the collision log holds the pair (r, tx) of event e
EventInLog(e) ==
    \E x \in collisions : x.RValue = e.RValue /\ x.TxHash = e.NewTxHash

\* the events scanBlock made of the collisions the batch call returned and
\* that no worker has taken yet: those in the channel and those dropped
Published == dropped \cup {collisionChan[i] : i \in 1..Len(collisionChan)}

\* C29: every collision that BatchCheckAndInsertRValues returns, and so
\* every event dropped because the channel was full, is in the persistent
\* collision log.
C29_ReturnedCollisionsInLog == \A e \in Published : EventInLog(e)

\* the same with the PostgreSQL adapter only
C29_LiveReturnedCollisionsInLog ==
    impl = "live" => \A e \in Published : EventInLog(e)

(***************************************************************************)
(* The saved cursor (SpecCursor).                                          *)
(***************************************************************************)
\* the heights scanBlock has processed: block h holds transaction h
Processed == scanned

LastProcessed ==
    IF Processed = {} THEN 0
    ELSE CHOOSE h \in Processed : \A g \in Processed : g <= h

\* C30: the cursor is written at heights that are multiples of the save
\* period, it never exceeds the last fully processed block of the chain,
\* and once it has been written the last fully processed block exceeds it
\* by fewer blocks than one save period.
C30_CursorWithinOneSavePeriod ==
    cursor # 0 =>
        /\ cursor % SaveEvery = 0
        /\ cursor <= LastProcessed
        /\ LastProcessed - cursor < SaveEvery

\* the same with MockDB and no second goroutine on the chain
C30_SingleLoopCursorWithinOneSavePeriod ==
    (impl = "mock" /\ Len(loops) <= 1) => C30_CursorWithinOneSavePeriod

(***************************************************************************)
(* The initial cursor of a scan loop.                                      *)
(***************************************************************************)
\* the step in which scan loop l leaves the code before its for loop
LoopStarts(l) ==
    /\ l \in DOMAIN loops
    /\ loops[l].pc = "init"
    /\ loops'[l].pc = "top"

\* C31: a scan loop starts at the cursor c the persistence holds for the
\* chain, so that the first block it fetches is c + 1; when persistence
\* holds none it starts at latest - lookback, a height that never lies above
\* latest (no unsigned wrap-around when latest is below the lookback), and
\* every block a loop fetches is the one after its position
C31_InitialCursor ==
    [][\A l \in 1..MaxLoops :
          /\ LoopStarts(l) =>
                IF cursor # 0
                THEN loops'[l].lastBlock = cursor
                ELSE loops'[l].lastBlock <= latestBlock
          /\ (l \in DOMAIN loops /\ loops'[l].pc = "scan") =>
                loops'[l].nextBlock = loops'[l].lastBlock + 1]_vars

\* C31 with MockDB, on a chain whose head is at or above the lookback when
\* the loop starts: there it holds
C31_MockInitialCursorHighHead ==
    [][\A l \in 1..MaxLoops :
          /\ (LoopStarts(l) /\ impl = "mock" /\ latestBlock >= Lookback) =>
                IF cursor # 0
                THEN loops'[l].lastBlock = cursor
                ELSE loops'[l].lastBlock = latestBlock - Lookback
          /\ (l \in DOMAIN loops /\ loops'[l].pc = "scan") =>
                loops'[l].nextBlock = loops'[l].lastBlock + 1]_vars

(***************************************************************************)
(* The scan loop with retries, error counting, circuit breaker and the     *)
(* asynchronous batch writer (SpecGuard): Scanner.scanLoop of the scanner  *)
(* that queues signatures for batchWriter.  StartChain is called again     *)
(* only when the loop started before has returned.                         *)
(***************************************************************************)
\* a run of this many block-level errors makes the loop reconnect
maxConsecutiveErrors == 10

\* the capacity of writeQueue (the scanner makes 10000), scaled
WriteQueueCap == 1

\* the locals of a scanLoop goroutine of this scanner
NewGuardedLoop(ch) ==
    [pc |-> "init", gen |-> ch, seen |-> ch, checked |-> 0, lastBlock |-> 0,
     latest |-> 0, nextBlock |-> 0, consecutiveErrors |-> 0]

\* the goroutine returns
GuardedReturned(lp) ==
    [NewGuardedLoop(lp.gen) EXCEPT !.pc = "done"]

\* Scanner.StartChain on a chain that is not running
GuardedStart ==
    /\ Len(loops) < MaxLoops
    /\ \A l \in Loops : loops[l].pc = "done"
    /\ ~running
    /\ running' = TRUE
    /\ stopChan' = stopChan + 1
    /\ loops' = Append(loops, NewGuardedLoop(stopChan + 1))
    /\ UNCHANGED <<pool, impl, sysVars, dbVars, apiVars, orchVars, utilVars,
                   closed, latestBlock, cursor>>

\* scanLoop before the loop: reconnect when there is no client, read the
\* cursor; without a cursor the head is asked for next
GuardedInit(l) ==
    /\ loops[l].pc = "init"
    /\ client' = IF client = 0 THEN 1 ELSE client
    /\ \E last \in GetLastBlock :
          loops' = [loops EXCEPT ![l].pc = IF last # 0 THEN "top" ELSE "first",
                                 ![l].lastBlock = last]
    /\ UNCHANGED <<pool, impl, shutdown, dbClosed, writeVars, dbVars, apiVars,
                   orchVars, utilVars, running, stopChan, closed, latestBlock,
                   cursor>>

\* scanLoop before the loop: there is no client and reconnect fails
GuardedInitFail(l) ==
    /\ loops[l].pc = "init"
    /\ client = 0
    /\ loops' = [loops EXCEPT ![l] = GuardedReturned(@)]
    /\ UNCHANGED <<pool, impl, sysVars, dbVars, apiVars, orchVars, utilVars,
                   running, stopChan, closed, latestBlock, cursor>>

\* scanLoop before the loop, no cursor: getLatestBlockWithRetry succeeds
GuardedFirst(l) ==
    /\ loops[l].pc = "first"
    /\ loops' = [loops EXCEPT ![l].pc = "top",
                              ![l].lastBlock =
                                  (latestBlock - Lookback) % HeightMod]
    /\ UNCHANGED <<pool, impl, sysVars, dbVars, apiVars, orchVars, utilVars,
                   running, stopChan, closed, latestBlock, cursor>>

\* scanLoop before the loop, no cursor: getLatestBlockWithRetry fails
GuardedFirstFail(l) ==
    /\ loops[l].pc = "first"
    /\ loops' = [loops EXCEPT ![l] = GuardedReturned(@)]
    /\ UNCHANGED <<pool, impl, sysVars, dbVars, apiVars, orchVars, utilVars,
                   running, stopChan, closed, latestBlock, cursor>>

\* the select at the top of the loop
GuardedSelect(l) ==
    /\ loops[l].pc = "top"
    /\ \E ch \in {loops[l].seen, stopChan} :
          loops' = [loops EXCEPT ![l] = IF ch \in closed
                                        THEN GuardedReturned(@)
                                        ELSE [@ EXCEPT !.pc = "allow",
                                                       !.checked = ch]]
    /\ UNCHANGED <<pool, impl, sysVars, dbVars, apiVars, orchVars, utilVars,
                   running, stopChan, closed, latestBlock, cursor>>

\* the loop asks the breaker: refused, it sleeps and starts over
GuardedAllow(l) ==
    /\ loops[l].pc = "allow"
    /\ cb' = Allow(cb, now).cb
    /\ allowed' = Allow(cb, now).ret
    /\ loops' = [loops EXCEPT ![l] = IF Allow(cb, now).ret
                                     THEN [@ EXCEPT !.pc = "latest"]
                                     ELSE EndIteration(@)]
    /\ UNCHANGED <<pool, impl, sysVars, dbVars, apiVars, orchVars, running,
                   stopChan, closed, latestBlock, cursor, now, cbLog, retry,
                   pureVars>>

\* getLatestBlockWithRetry succeeds: sleep when caught up, else scan
\* lastBlock + 1
GuardedLatest(l) ==
    /\ loops[l].pc = "latest"
    /\ client # 0
    /\ loops' = [loops EXCEPT
                    ![l] = IF loops[l].lastBlock >= latestBlock
                           THEN EndIteration(@)
                           ELSE [@ EXCEPT !.pc = "scan",
                                          !.seen = stopChan,
                                          !.latest = latestBlock,
                                          !.nextBlock = loops[l].lastBlock + 1]]
    /\ UNCHANGED <<pool, impl, sysVars, dbVars, apiVars, orchVars, utilVars,
                   running, stopChan, closed, latestBlock, cursor>>

\* Scanner.reconnect: the dial succeeds and replaces the client, or fails
\* and leaves it
Reconnect == {client + 1, client}

\* the error branch of getLatestBlockWithRetry: count the error, reconnect
\* and reset the count when it reaches maxConsecutiveErrors
CountLatestError(lp) ==
    [EndIteration(lp) EXCEPT
        !.consecutiveErrors =
            IF lp.consecutiveErrors + 1 >= maxConsecutiveErrors
            THEN 0 ELSE lp.consecutiveErrors + 1]

\* getLatestBlockWithRetry fails: recordError, count, maybe reconnect, sleep
GuardedLatestFail(l) ==
    /\ loops[l].pc = "latest"
    /\ cb' = RecordFailure(cb, now)
    /\ \E c \in Reconnect :
          /\ client' = IF loops[l].consecutiveErrors + 1 >= maxConsecutiveErrors
                        THEN c ELSE client
          /\ loops' = [loops EXCEPT ![l] = CountLatestError(@)]
    /\ UNCHANGED <<pool, impl, shutdown, dbClosed, writeVars, dbVars, apiVars,
                   orchVars, running, stopChan, closed, latestBlock, cursor,
                   now, cbLog, allowed, retry, pureVars>>

\* what scanBlock sends to the write queue: every transaction with r, s
\* and sender
Queueable(t) == TxRWire(t) # <<>>

\* the non-blocking sends of scanBlock: a signature is dropped when the
\* queue is full
RECURSIVE Enqueue(_, _)
Enqueue(q, b) ==
    IF b = <<>> THEN q
    ELSE Enqueue(IF Queueable(Head(b)) /\ Len(q) < WriteQueueCap
                 THEN Append(q, Head(b)) ELSE q,
                 Tail(b))

\* the error branch of scanBlockWithRetry: count the error and sleep
CountScanError(lp) ==
    [EndIteration(lp) EXCEPT !.consecutiveErrors = lp.consecutiveErrors + 1]

\* scanBlockWithRetry succeeds: the block's signatures are queued,
\* recordSuccess, the position moves, the cursor is saved at every
\* SaveEvery-th block
GuardedScan(l) ==
    /\ loops[l].pc = "scan"
    /\ client # 0
    /\ LET b == BlockAt(loops[l].nextBlock)
           txs == {b[i] : i \in 1..Len(b)}
       IN /\ writeQueue' = Enqueue(writeQueue, b)
          /\ scanned' = scanned \cup txs
          /\ rescanned' = rescanned \cup (txs \cap scanned)
    /\ cb' = RecordSuccess(cb)
    /\ loops' = [loops EXCEPT ![l] = [EndIteration(@) EXCEPT
                                         !.lastBlock = loops[l].nextBlock,
                                         !.consecutiveErrors = 0]]
    /\ IF loops[l].nextBlock % SaveEvery = 0
       THEN cursor' \in SaveLastBlock(loops[l].nextBlock)
       ELSE cursor' = cursor
    /\ UNCHANGED <<pool, impl, procVars, batch, signatures, dbVars, apiVars,
                   collisionChan, recoveryEnabled, workers, dropped, handled,
                   running, stopChan, closed, latestBlock, now, cbLog, allowed,
                   retry, pureVars>>

\* scanBlockWithRetry fails: recordError, count, sleep, retry the block
GuardedScanFail(l) ==
    /\ loops[l].pc = "scan"
    /\ cb' = RecordFailure(cb, now)
    /\ loops' = [loops EXCEPT ![l] = CountScanError(@)]
    /\ UNCHANGED <<pool, impl, sysVars, dbVars, apiVars, orchVars, running,
                   stopChan, closed, latestBlock, cursor, now, cbLog, allowed,
                   retry, pureVars>>

\* batchWriter receives a signature from the queue
BatchWriterReceive ==
    /\ writeQueue # <<>>
    /\ batch' = Append(batch, Head(writeQueue))
    /\ writeQueue' = Tail(writeQueue)
    /\ UNCHANGED <<pool, impl, procVars, signatures, dbVars, apiVars, orchVars,
                   loopVars, utilVars>>

\* Scanner.flushBatch: InsertSignatures stores the batch or fails; the
\* failure is counted and logged, and batchWriter empties the batch
flushBatch(ok) ==
    [batch |-> <<>>,
     signatures |-> IF ok
                    THEN signatures \cup {batch[i] : i \in 1..Len(batch)}
                    ELSE signatures]

\* InsertSignatures of MockDB cannot fail
InsertSignatures ==
    IF impl = "live" THEN {TRUE, FALSE} ELSE {TRUE}

\* batchWriter's ticker fires on a batch that is not empty
BatchWriterFlush ==
    /\ batch # <<>>
    /\ \E ok \in InsertSignatures :
          /\ batch' = flushBatch(ok).batch
          /\ signatures' = flushBatch(ok).signatures
    /\ UNCHANGED <<pool, impl, procVars, writeQueue, dbVars, apiVars, orchVars,
                   loopVars, utilVars>>

InitGuard ==
    /\ pool = S2Pool
    /\ impl \in {"mock", "live"}
    /\ InitDB
    /\ InitApiIdle
    /\ InitScanner
    /\ InitUtilIdle
    /\ client \in {0, 1}
    /\ shutdown = "waiting"
    /\ dbClosed = FALSE
    /\ writeQueue = <<>>
    /\ batch = <<>>
    /\ signatures = {}
    /\ running = FALSE
    /\ stopChan = 0
    /\ closed = {}
    /\ loops = <<>>
    /\ latestBlock \in 0..1
    /\ cursor = 0

NextGuard ==
    \/ NewBlock
    \/ Tick
    \/ GuardedStart
    \/ StopChain
    \/ \E l \in Loops : GuardedInit(l)
    \/ \E l \in Loops : GuardedInitFail(l)
    \/ \E l \in Loops : GuardedFirst(l)
    \/ \E l \in Loops : GuardedFirstFail(l)
    \/ \E l \in Loops : GuardedSelect(l)
    \/ \E l \in Loops : GuardedAllow(l)
    \/ \E l \in Loops : GuardedLatest(l)
    \/ \E l \in Loops : GuardedLatestFail(l)
    \/ \E l \in Loops : GuardedScan(l)
    \/ \E l \in Loops : GuardedScanFail(l)
    \/ BatchWriterReceive
    \/ BatchWriterFlush

SpecGuard == InitGuard /\ [][NextGuard]_vars

(***************************************************************************)
(* The scan loop with error counting, breaker and batch writer (SpecGuard) *)
(***************************************************************************)
\* the step in which scan loop l ends an iteration with a block-level error
\* (getLatestBlockWithRetry or scanBlockWithRetry failed)
BlockLevelError(l) ==
    /\ l \in DOMAIN loops
    /\ loops[l].pc \in {"latest", "scan"}
    /\ loops'[l].pc = "top"
    /\ cb'.failures = cb.failures + 1

\* C32: the block-level error that is the tenth in a row (failed
\* latest-height or failed block fetch, no successful block in between) makes
\* the loop reconnect before it goes on: the client is dialled again and the
\* count of consecutive errors starts over
C32_ReconnectAfterTenErrors ==
    [][\A l \in 1..MaxLoops :
          (BlockLevelError(l)
             /\ loops[l].consecutiveErrors + 1 >= maxConsecutiveErrors)
          => /\ loops'[l].consecutiveErrors = 0
             /\ client' \in Reconnect]_vars

\* C32 for a run of failed latest-height requests alone, where it holds
C32_ReconnectAfterTenLatestErrors ==
    [][\A l \in 1..MaxLoops :
          (BlockLevelError(l) /\ loops[l].pc = "latest"
             /\ loops[l].consecutiveErrors + 1 >= maxConsecutiveErrors)
          => /\ loops'[l].consecutiveErrors = 0
             /\ client' \in Reconnect]_vars

\* ten errors in a row were counted and the client was dialled again
C32_Reconnected ==
    /\ client = 2
    /\ \E l \in Loops : loops[l].pc = "top" /\ loops[l].consecutiveErrors = 0
                        /\ cb.failures = ChainThreshold

\* the step in which scan loop l issues an RPC call (eth_blockNumber or
\* eth_getBlockByNumber)
IssuesRPC(l) ==
    /\ l \in DOMAIN loops
    /\ loops[l].pc \in {"first", "latest", "scan"}
    /\ loops'[l] # loops[l]

\* the breaker is open and less than the reset interval has passed since
\* the last recorded failure
Pausing == cb.open /\ now - cb.lastFailure < cb.resetAfter

\* C33: while the chain's breaker is open and less than the reset interval
\* has passed since the last recorded failure, Allow returns false and the
\* scan loop issues no RPC call; an Allow after more than the interval
\* returns true and leaves the breaker closed with a failure count of zero
C33_BreakerPausesChain ==
    [][\A l \in 1..MaxLoops :
          /\ IssuesRPC(l) => ~Pausing
          /\ (l \in DOMAIN loops /\ loops[l].pc = "allow" /\ loops'[l] # loops[l])
             => /\ Pausing => (~allowed' /\ loops'[l].pc = "top" /\ cb' = cb)
                /\ (cb.open /\ now - cb.lastFailure > cb.resetAfter)
                   => (allowed' /\ ~cb'.open /\ cb'.failures = 0
                       /\ loops'[l].pc = "latest")]_vars

\* C33 inside the for loop of scanLoop, where it holds
C33_BreakerPausesLoopBody ==
    [][\A l \in 1..MaxLoops :
          /\ (IssuesRPC(l) /\ loops[l].pc # "first") => ~Pausing
          /\ (l \in DOMAIN loops /\ loops[l].pc = "allow" /\ loops'[l] # loops[l])
             => /\ Pausing => (~allowed' /\ loops'[l].pc = "top" /\ cb' = cb)
                /\ (cb.open /\ now - cb.lastFailure > cb.resetAfter)
                   => (allowed' /\ ~cb'.open /\ cb'.failures = 0
                       /\ loops'[l].pc = "latest")]_vars

\* C38: a block the scan loop has advanced past has every eligible
\* signature stored by persistence (a failed batch insert or block fetch
\* keeps the position, so that the block is fetched again), and no
\* signature of a processed block is dropped
C38_AdvanceOnlyAfterStored ==
    \A t \in scanned : Queueable(t) => t \in signatures

\* a signature of a processed block is gone for good: its block was
\* advanced past, and it is neither stored nor queued nor in the batch
C38_Lost ==
    \E t \in scanned :
        /\ Queueable(t)
        /\ t \notin signatures
        /\ \A i \in 1..Len(writeQueue) : writeQueue[i] # t
        /\ \A i \in 1..Len(batch) : batch[i] # t

(***************************************************************************)
(* retry.Do and retry.DoWithResult: the wait between attempts (SpecRetry). *)
(***************************************************************************)
\* C34: when the context is done (cancelled, or past its deadline) while Do
\* or DoWithResult waits between two attempts, the call returns the
\* context's error without invoking the wrapped function again, and a call
\* that has returned invokes nothing
C34_CancelledWaitReturnsCtxErr ==
    [][/\ (retry.pc = "wait" /\ retry.ctx = "done" /\ retry' # retry) =>
             /\ retry'.pc = "done"
             /\ retry'.ret = CtxErr
             /\ retry'.calls = retry.calls
       /\ retry.pc = "done" => retry'.calls = retry.calls]_vars

\* C34's case: the first invocation failed with a retryable error, the
\* context was cancelled during the wait that followed, and the call
\* returned the context's error after that one invocation
C34_Witness ==
    /\ retry.pc = "done"
    /\ retry.ctx = "done"
    /\ retry.ret = CtxErr
    /\ retry.cfg.MaxAttempts = 3
    /\ Len(retry.calls) = 1
    /\ IsRetryable(retry.calls[1])
    /\ retry.delays = <<>>

\* C35: the i-th wait of a call (before attempt i + 1, counting attempts
\* from 1) lasts BaseDelay * 2^(i-1) capped at MaxDelay, plus a jitter of at
\* most a quarter of that capped value
C35_BackoffDoublesCappedWithJitter ==
    \A i \in 1..Len(retry.delays) :
        LET capped == Min(retry.cfg.BaseDelay * Pow2(i - 1), retry.cfg.MaxDelay)
            jitter == retry.delays[i] - capped
        IN /\ 0 <= jitter
           /\ 4 * jitter <= capped

\* C35's cases: a base delay above the cap gave a first wait of the cap
\* plus the largest jitter; a base delay below it gave a first wait of
\* the base delay and a second of twice that plus the largest jitter
C35_Witness ==
    \/ /\ retry.cfg.BaseDelay = 40
       /\ retry.delays = <<retry.cfg.MaxDelay + (retry.cfg.MaxDelay \div 4) - 1>>
    \/ /\ retry.cfg.BaseDelay = 8
       /\ retry.delays = <<8, 16 + 3>>

(***************************************************************************)
(* The running flag of a chain (SpecLoop).                                 *)
(***************************************************************************)
\* C37: while the chain's running flag is set a scan loop of the chain is
\* active: a scan loop that returns on its own (the initial connection or
\* the first request for the head failed) leaves the flag false, so that
\* StartChain can start a new loop and the Running status is right
C37_RunningMeansLoopActive ==
    running => \E l \in Loops : loops[l].pc # "done"

\* the flag is set, every scan loop has returned, and none was stopped:
\* StartChain does nothing from here on
C37_RunningWithoutLoop ==
    /\ running
    /\ closed = {}
    /\ loops # <<>>
    /\ \A l \in Loops : loops[l].pc = "done"
    /\ ~ENABLED StartChain

(***************************************************************************)
(* Shutdown (SpecStop): main's signal goroutine next to a chain's scan     *)
(* loops and the collision workers.  A process that has exited takes no    *)
(* further step.                                                           *)
(***************************************************************************)
\* Scanner.StopAll: StopChain on every chain, a no-op where none is running
StopAll ==
    /\ running' = FALSE
    /\ closed' = IF running THEN closed \cup {stopChan} ELSE closed

\* main's signal goroutine receives SIGINT or SIGTERM and calls StopAll
SignalStopAll ==
    /\ shutdown = "waiting"
    /\ shutdown' = "stopped"
    /\ StopAll
    /\ UNCHANGED <<pool, impl, client, dbClosed, writeVars, dbVars, apiVars,
                   orchVars, utilVars, stopChan, loops, latestBlock, cursor>>

\* os.Exit(0) after StopAll: the process ends at once, deferred calls
\* (database.Close) do not run
Exit ==
    /\ shutdown = "stopped"
    /\ shutdown' = "exited"
    /\ UNCHANGED <<pool, impl, client, dbClosed, writeVars, dbVars, apiVars,
                   orchVars, loopVars, utilVars>>

\* http.ListenAndServe returns an error and log.Fatal ends the process,
\* again without the deferred calls
ServerFatal ==
    /\ shutdown # "exited"
    /\ shutdown' = "exited"
    /\ UNCHANGED <<pool, impl, client, dbClosed, writeVars, dbVars, apiVars,
                   orchVars, loopVars, utilVars>>

InitStop ==
    /\ pool = S2Pool
    /\ impl \in {"mock", "live"}
    /\ InitDB
    /\ InitSys
    /\ InitApiIdle
    /\ InitScanner
    /\ InitUtilIdle
    /\ running = FALSE
    /\ stopChan = 0
    /\ closed = {}
    /\ loops = <<>>
    /\ latestBlock = Lookback
    /\ cursor = 0

\* the process is alive
Alive == shutdown # "exited"

NextStop ==
    \/ Alive /\ NewBlock
    \/ Alive /\ StartChain
    \/ Alive /\ StopChain
    \/ Alive /\ \E l \in Loops : ScanLoopInit(l)
    \/ Alive /\ \E l \in Loops : ScanLoopInitFail(l)
    \/ Alive /\ \E l \in Loops : ScanLoopSelect(l)
    \/ Alive /\ \E l \in Loops : ScanLoopLatest(l)
    \/ Alive /\ \E l \in Loops : ScanLoopLatestFail(l)
    \/ Alive /\ \E l \in Loops : ScanLoopScan(l)
    \/ Alive /\ \E l \in Loops : ScanLoopScanFail(l)
    \/ Alive /\ \E w \in Workers : WorkerStep(w)
    \/ Alive /\ \E w \in Workers : FetchFail(w)
    \/ SignalStopAll
    \/ Exit
    \/ ServerFatal

SpecStop == InitStop /\ [][NextStop]_vars

\* every scan loop has returned, the collision channel is empty and no
\* worker is handling an event
Quiescent ==
    /\ \A l \in Loops : loops[l].pc = "done"
    /\ collisionChan = <<>>
    /\ \A w \in Workers : workers[w].pc = "idle"

\* C36: a process that ended on the stop signal has stopped every chain
\* scanner, its workers have drained the collision channel, and it closed
\* the persistence handle, which is closed only when scanners and workers
\* are done
C36_GracefulStop ==
    /\ (shutdown = "exited" /\ ~running) => (Quiescent /\ dbClosed)
    /\ dbClosed => Quiescent

\* the process ended on the signal while a scan loop was in the middle of an
\* iteration and a worker in the middle of an event, with another event
\* still queued and the database never closed
C36_ExitedMidway ==
    /\ shutdown = "exited"
    /\ ~running
    /\ \E l \in Loops : loops[l].pc = "latest"
    /\ collisionChan # <<>>
    /\ \E w \in Workers : workers[w].pc # "idle"
    /\ ~dbClosed

(***************************************************************************)
(* The recovery toggle (SpecOrch).                                         *)
(***************************************************************************)
\* the step in which worker w receives the event at the head of the channel
Receives(w) ==
    /\ workers[w].pc = "idle"
    /\ collisionChan # <<>>
    /\ collisionChan' = Tail(collisionChan)

\* the event of transaction tx is with no worker and not in the channel
Gone(tx) ==
    /\ \A w \in Workers : workers[w].pc = "idle" \/ workers[w].ev.NewTxHash # tx
    /\ \A i \in 1..Len(collisionChan) : collisionChan[i].NewTxHash # tx

\* C39: an event a worker dequeues while recovery is disabled is discarded
\* with no RPC fetch and no persistence write; a discarded event is gone and
\* never handled afterwards, whatever the toggle does; and an idle worker
\* dequeues from a channel that holds events whether recovery is enabled or
\* not
C39_DisabledRecoveryDiscards ==
    /\ [][\A w \in Workers :
             (Receives(w) /\ ~recoveryEnabled) =>
                 /\ workers' = workers
                 /\ <<rValues, collisions, keys, nonces, comps>>' =
                        <<rValues, collisions, keys, nonces, comps>>
                 /\ handled' = handled \cup
                        {[tx |-> Head(collisionChan).NewTxHash,
                          outcome |-> "discarded"]}]_vars
    /\ [](\A e \in handled :
             e.outcome = "discarded" =>
                 /\ Gone(e.tx)
                 /\ \A f \in handled : f.tx = e.tx => f = e)
    /\ [](\A w \in Workers :
             (workers[w].pc = "idle" /\ collisionChan # <<>>) => ENABLED Dequeue(w))

\* C39's case: an event was discarded while recovery was disabled, recovery
\* is enabled again, the event is gone and nothing was recovered or saved
\* for it
C39_Witness ==
    /\ recoveryEnabled
    /\ \E e \in handled : e.outcome = "discarded" /\ Gone(e.tx)
    /\ collisionChan = <<>>
    /\ \A w \in Workers : workers[w].pc = "idle"
    /\ keys = <<>>
    /\ comps = <<>>

(***************************************************************************)
(* The orchestrator with a failing recovered-nonce lookup (SpecFault): the *)
(* steps of SpecOrch on the pool with keys A, A and B on one nonce, and    *)
(* DB.GetRecoveredNonce returning a persistence error.                     *)
(***************************************************************************)
\* handleCollision, cross-key: DB.GetRecoveredNonce fails with a wrapped
\* timeout or connection error, whether a row for r exists or not; the
\* handler takes any error for 'no known nonce'
CrossKeyNonceError(w) ==
    /\ workers[w].pc = "ck_nonce"
    /\ impl = "live"
    /\ workers' = [workers EXCEPT ![w] = [@ EXCEPT !.pc = "ck_pending"]]
    /\ UNCHANGED <<pool, impl, sysVars, loopVars, utilVars, dbVars, apiVars,
                   collisionChan, recoveryEnabled, scanned, rescanned, dropped,
                   handled>>

InitFault ==
    /\ pool = S2Pool
    /\ impl \in {"mock", "live"}
    /\ InitDB
    /\ InitSys
    /\ InitApiIdle
    /\ InitScanner
    /\ InitChainIdle
    /\ InitUtilIdle

NextFault ==
    \/ \E b \in Blocks : ScanBlock(b)
    \/ \E enabled \in BOOLEAN : SetRecoveryEnabled(enabled)
    \/ \E w \in Workers : Dequeue(w)
    \/ \E w \in Workers : FetchTxs(w)
    \/ \E w \in Workers : FetchFail(w)
    \/ \E w \in Workers : SameKeyCheck(w)
    \/ \E w \in Workers : SameKeySave(w)
    \/ \E w \in Workers : SameKeyCross(w)
    \/ \E w \in Workers : SameKeyNonce(w)
    \/ \E w \in Workers : checkPendingComponents(w)
    \/ \E w \in Workers : CrossKeyNonce(w)
    \/ \E w \in Workers : CrossKeyNonceError(w)
    \/ \E w \in Workers : CrossKeyCheck(w)
    \/ \E w \in Workers : CrossKeySave(w)
    \/ \E w \in Workers : savePendingComponent(w)

SpecFault == InitFault /\ [][NextFault]_vars

\* C40: the handler of a cross-key event goes on to save a pending
\* component only when the lookup of the recovered nonce for r found no
\* nonce: not when a nonce for r is stored and the lookup failed
C40_PendingOnlyWithoutNonce ==
    [][\A w \in Workers :
          (workers[w].pc = "ck_nonce" /\ workers'[w].pc = "ck_pending") =>
              workers[w].ev.RValue \notin DOMAIN nonces]_vars

\* C40 with MockDB, whose lookup fails with ErrNotFound alone
C40_MockPendingOnlyWithoutNonce ==
    [][\A w \in Workers :
          (impl = "mock" /\ workers[w].pc = "ck_nonce"
             /\ workers'[w].pc = "ck_pending") =>
              workers[w].ev.RValue \notin DOMAIN nonces]_vars

\* a pending component was saved for an R value whose nonce was stored all
\* along, and the key of the event's sender was not recovered
C40_PendingDespiteNonce ==
    \E e \in handled :
        /\ e.outcome = "pending"
        /\ \E i \in 1..Len(comps) : comps[i].RValues[1] \in DOMAIN nonces
        /\ Len(keys) = 1

=============================================================================
